---- MODULE Spec2Model ----
(***************************************************************************)
(* Anisotropic Kuwahara filter on WebGPU: the texture store, the device    *)
(* context, the five-dispatch filter pipeline and the image-load path,     *)
(* as a state machine over the GPU queue.                                  *)
(***************************************************************************)
EXTENDS Integers, Sequences, FiniteSets, TLC

(* ---------------- bounds of the model ---------------- *)
\* run slots: concurrently pending runKuwahara calls
NumRuns == 2
\* total number of runKuwahara invocations over a behaviour
MaxInvocations == 2
\* total number of GPU textures ever created over a behaviour
MaxTextures == 7
\* total number of loadImage calls over a behaviour
MaxLoads == 2
\* handler slots: concurrently pending handleFileSelect calls
NumHandlers == 2

(* ---------------- program constants ---------------- *)
\* size of the parameter uniform buffer in bytes
ParamsBufferSize == 32
\* denominator of the slider step (0.01) the parameter values come in
SliderDen == 100

Keys == {"original", "structure_tensor", "horizontal_blur", "blur_output",
         "eigenvector_output", "kuwahara_output"}
DerivedKeys == Keys \ {"original"}

(* ---------------- numbers ---------------- *)
\* a rational n/d
Rat(n, d) == [n |-> n, d |-> d]

Pow2_23 == 2^23
Pow2_24 == 2^24

RECURSIVE Normalise(_, _, _)
\* scale n by powers of two until 2^23*d <= x < 2^24*d; e counts the doublings
Normalise(n, d, e) ==
    IF n >= Pow2_23 * d THEN [x |-> n, e |-> e]
    ELSE Normalise(2 * n, d, e + 1)

\* the IEEE-754 binary32 value nearest to the rational q (round half to even),
\* as mantissa m in [2^23, 2^24) and exponent e with value m / 2^e; zero is m = 0
Fround(q) ==
    IF q.n = 0 THEN [m |-> 0, e |-> 0]
    ELSE LET nr  == Normalise(q.n, q.d, 0)
             quo == nr.x \div q.d
             rem == nr.x % q.d
             up  == (2 * rem > q.d) \/ (2 * rem = q.d /\ quo % 2 = 1)
             m   == IF up THEN quo + 1 ELSE quo
         IN  IF m = Pow2_24 THEN [m |-> Pow2_23, e |-> nr.e - 1]
             ELSE [m |-> m, e |-> nr.e]

\* little-endian bytes of a binary32 (sign 0): biased exponent 150 - e
Float32Bytes(f) ==
    IF f.m = 0 THEN <<0, 0, 0, 0>>
    ELSE LET E    == 150 - f.e
             frac == f.m - Pow2_23
         IN  << frac % 256,
                (frac \div 256) % 256,
                (frac \div 65536) + (E % 2) * 128,
                E \div 2 >>

\* little-endian two's complement bytes of ToInt32(k), k an integer in range
Int32Bytes(k) ==
    LET u == IF k >= 0 THEN k ELSE (k + 2147483647) + 1
        top == IF k >= 0 THEN 0 ELSE 128
    IN  << u % 256, (u \div 256) % 256, (u \div 65536) % 256,
           (u \div Pow2_24) + top >>

\* signed 32-bit integer stored little-endian at byte offset off (0-based)
ReadI32(buf, off) ==
    LET b0 == buf[off + 1]
        b1 == buf[off + 2]
        b2 == buf[off + 3]
        b3 == buf[off + 4]
        low == b0 + 256 * b1 + 65536 * b2 + Pow2_24 * (b3 % 128)
    IN  IF b3 < 128 THEN low ELSE (low - 2147483647) - 1

\* binary32 stored little-endian at byte offset off, as mantissa and exponent
ReadF32(buf, off) ==
    LET b0 == buf[off + 1]
        b1 == buf[off + 2]
        b2 == buf[off + 3]
        b3 == buf[off + 4]
        E    == (b3 % 128) * 2 + (b2 \div 128)
        frac == (b2 % 128) * 65536 + b1 * 256 + b0
    IN  IF E = 0 /\ frac = 0 THEN [m |-> 0, e |-> 0]
        ELSE [m |-> Pow2_23 + frac, e |-> 150 - E]

\* the binary32 f is a binary32 nearest to the rational q
NearestF32(f, q) ==
    IF q.n = 0 THEN f.m = 0
    ELSE LET nr == Normalise(q.n, q.d, 0)
             hi == f.m * q.d
         IN  f.m # 0 /\
             \/ /\ f.e = nr.e
                /\ 2 * (IF hi >= nr.x THEN hi - nr.x ELSE nr.x - hi) <= q.d
             \/ /\ f.e = nr.e - 1
                /\ f.m = Pow2_23
                /\ 2 * (Pow2_24 * q.d - nr.x) <= q.d

(* ---------------- parameters ---------------- *)
\* KuwaharaParams; the float fields are counted in slider steps of 1/SliderDen
Params(k, sh, ha, al, zc, ze, si) ==
    [kernelSize |-> k, sharpness |-> sh, hardness |-> ha, alpha |-> al,
     zeroCrossing |-> zc, zeta |-> ze, sigma |-> si]

\* two values of KuwaharaParams: the component's defaults (with sigma 5.0),
\* and a second position of the sliders, with zeta at its minimum 0
DefaultParams == Params(4, 80, 50, 100, 0, 100, 500)
OtherParams == Params(3, 200, 100, 25, 10, 0, 150)
ParamChoices == {DefaultParams, OtherParams}
NoParams == Params(0, 0, 0, 0, 0, 0, 0)

\* zeta || 2.0 / (kernelSize / 2)
effectiveZeta(p) ==
    IF p.zeta # 0 THEN Rat(p.zeta, SliderDen) ELSE Rat(4, p.kernelSize)

\* typed-array store of a 4-byte word at element index i of a byte buffer
SetWord(buf, i, bytes) ==
    SubSeq(buf, 1, 4 * i) \o bytes \o SubSeq(buf, 4 * i + 5, Len(buf))

\* new ArrayBuffer(size): zero-filled
ArrayBuffer(size) == [j \in 1..size |-> 0]

F32Of(h) == Float32Bytes(Fround(Rat(h, SliderDen)))

\* bufferData that writes zeta and sigma in each other's place
bufferDataSwapped(p) ==
    LET b0 == ArrayBuffer(ParamsBufferSize)
        b1 == SetWord(b0, 0, Int32Bytes(p.kernelSize))
        b2 == SetWord(b1, 1, F32Of(p.sharpness))
        b3 == SetWord(b2, 2, F32Of(p.hardness))
        b4 == SetWord(b3, 3, F32Of(p.alpha))
        b5 == SetWord(b4, 4, F32Of(p.zeroCrossing))
        b6 == SetWord(b5, 6, Float32Bytes(Fround(effectiveZeta(p))))
        b7 == SetWord(b6, 5, F32Of(p.sigma))
    IN  b7

\* the bufferData the blur pass writes from this.kuwaharaParams
bufferData(p) ==
    LET b0 == ArrayBuffer(ParamsBufferSize)
        b1 == SetWord(b0, 0, Int32Bytes(p.kernelSize))
        b2 == SetWord(b1, 1, F32Of(p.sharpness))
        b3 == SetWord(b2, 2, F32Of(p.hardness))
        b4 == SetWord(b3, 3, F32Of(p.alpha))
        b5 == SetWord(b4, 4, F32Of(p.zeroCrossing))
        b6 == SetWord(b5, 5, Float32Bytes(Fround(effectiveZeta(p))))
        b7 == SetWord(b6, 6, F32Of(p.sigma))
    IN  b7

\* bufferData for each value this.kuwaharaParams takes in a run
writeBuffer == [p \in ParamChoices |-> bufferData(p)]

\* struct KuwaharaParams of the blur shader and of the Kuwahara shader:
\* member names and scalar types in declaration order
BlurShaderStruct ==
    << <<"kernelSize", "i32">>, <<"sharpness", "f32">>, <<"hardness", "f32">>,
       <<"alpha", "f32">>, <<"zeroCrossing", "f32">>, <<"zeta", "f32">>,
       <<"sigma", "f32">> >>
KuwaharaShaderStruct ==
    << <<"kernelSize", "i32">>, <<"sharpness", "f32">>, <<"hardness", "f32">>,
       <<"alpha", "f32">>, <<"zeroCrossing", "f32">>, <<"zeta", "f32">>,
       <<"sigma", "f32">> >>

\* WGSL layout: every member is a 4-byte scalar aligned to 4 bytes
MemberOffset(struct, name) ==
    4 * ((CHOOSE i \in 1..Len(struct) : struct[i][1] = name) - 1)

(* ---------------- shader arithmetic ---------------- *)
\* Numbers of the shaders are exact rationals n/d with d > 0 in lowest terms.
\* The rounding of the binary32 operations inside an invocation is left out;
\* the conversions of the texture formats and the library functions sqrt and
\* exp are rounded as stated at their definitions.
\* Every operator evaluates each of its arguments once: the value of an
\* argument e is named x by The({... x ... : x \in {e}}).
The(S) == CHOOSE x \in S : TRUE

RECURSIVE Gcd(_, _)
Gcd(a, b) == IF b = 0 THEN a ELSE Gcd(b, a % b)

Abs(k) == IF k < 0 THEN -k ELSE k

\* n/d for d # 0, in lowest terms with a positive denominator
Q(n, d) ==
    The({IF k = 0 THEN Rat(0, 1)
         ELSE The({IF m < 0 THEN Rat(-(k \div g), -(m \div g))
                   ELSE Rat(k \div g, m \div g) :
                   g \in {Gcd(Abs(k), Abs(m))}}) :
         k \in {n}, m \in {d}})

\* WGSL f32(k) of an integer k
f32(k) == Rat(k, 1)
Zero == Rat(0, 1)
One == Rat(1, 1)

add(a, b) ==
    The({IF x.n = 0 THEN y
         ELSE IF y.n = 0 THEN x
         ELSE The({Q(x.n * (y.d \div g) + y.n * (x.d \div g),
                     (x.d \div g) * y.d) : g \in {Gcd(x.d, y.d)}}) :
         x \in {a}, y \in {b}})
neg(a) == The({Rat(-x.n, x.d) : x \in {a}})
sub(a, b) == add(a, neg(b))
mul(a, b) ==
    The({IF x.n = 0 THEN Zero
         ELSE IF y.n = 0 THEN Zero
         ELSE The({Q((x.n \div g1) * (y.n \div g2),
                     (x.d \div g2) * (y.d \div g1)) :
                   g1 \in {Gcd(Abs(x.n), y.d)}, g2 \in {Gcd(Abs(y.n), x.d)}}) :
         x \in {a}, y \in {b}})
\* a / b for b # 0
div(a, b) ==
    The({IF x.n = 0 THEN Zero ELSE mul(x, Q(y.d, y.n)) : x \in {a}, y \in {b}})
lt(a, b) == sub(a, b).n < 0
le(a, b) == sub(a, b).n <= 0

\* WGSL builtins max, min, clamp, abs, floor and ceil
max(a, b) == The({IF lt(x, y) THEN y ELSE x : x \in {a}, y \in {b}})
min(a, b) == The({IF lt(y, x) THEN y ELSE x : x \in {a}, y \in {b}})
clamp(x, lo, hi) == min(max(x, lo), hi)
abs(a) == The({Rat(Abs(x.n), x.d) : x \in {a}})
floor(a) ==
    The({IF x.n >= 0 THEN x.n \div x.d ELSE -((-x.n + x.d - 1) \div x.d) :
         x \in {a}})
ceil(a) == -floor(neg(a))

\* integer clamp of the shaders' coordinate arithmetic
clampInt(k, lo, hi) ==
    The({IF i < lo THEN lo ELSE IF i > hi THEN hi ELSE i : i \in {k}})

\* the multiple of 1/den nearest to a (halves away from zero)
RoundTo(a, den) ==
    The({IF x.n = 0 THEN Zero
         ELSE The({Q(IF x.n < 0 THEN -((2 * s.n + s.d) \div (2 * s.d))
                     ELSE (2 * s.n + s.d) \div (2 * s.d), den) :
                   s \in {mul(abs(x), f32(den))}}) :
         x \in {a}})

\* the integer nearest to a >= 0, halves to the even one
RoundEven(a) ==
    The({The({IF r > x.d \/ (r = x.d /\ k % 2 = 1) THEN k + 1 ELSE k :
              k \in {x.n \div x.d}, r \in {2 * (x.n % x.d)}}) :
         x \in {a}})

RECURSIVE ISqrtIn(_, _, _)
\* the greatest r in lo..hi with r * r <= x, by bisection
ISqrtIn(x, lo, hi) ==
    IF lo = hi THEN lo
    ELSE The({IF mid * mid <= x THEN ISqrtIn(x, mid, hi)
              ELSE ISqrtIn(x, lo, mid - 1) :
              mid \in {(lo + hi + 1) \div 2}})
\* the integer square root of 0 <= x < 2^31
ISqrt(x) == The({ISqrtIn(k, 0, 46340) : k \in {x}})

\* resolution of the library functions of the model: sqrt and exp return
\* multiples of 1/LibDen
LibDen == 64

\* sqrt(a) for a >= 0: exact when numerator and denominator are squares,
\* else the square root rounded down to a multiple of 1/LibDen
sqrt(a) ==
    The({IF x.n = 0 THEN Zero
         ELSE The({IF rn * rn = x.n /\ rd * rd = x.d THEN Q(rn, rd)
                   ELSE Q(ISqrt(floor(mul(x, f32(LibDen * LibDen)))), LibDen) :
                   rn \in {ISqrt(x.n)}, rd \in {ISqrt(x.d)}}) :
         x \in {a}})

RECURSIVE Squarings(_, _)
\* y squared k times, rounded to a multiple of 1/LibDen^2 after each squaring
Squarings(y, k) ==
    The({IF x.n = 0 \/ k = 0 THEN x
         ELSE Squarings(RoundTo(mul(x, x), LibDen * LibDen), k - 1) :
         x \in {y}})

\* exp(a) for a <= 0: (1 + a/16)^16 when a >= -16 (0 below), rounded to a
\* multiple of 1/LibDen; exp(0) = 1
exp(a) ==
    The({IF x.n = 0 THEN One
         ELSE IF lt(x, f32(-16)) THEN Zero
         ELSE RoundTo(Squarings(RoundTo(add(One, div(x, f32(16))),
                                        LibDen * LibDen), 4), LibDen) :
         x \in {a}})

\* the k with 2^k <= a < 2^(k+1), for 1 <= a < 2^20
Log2Floor(a) ==
    The({CHOOSE k \in 0..19 : ~lt(x, f32(2^k)) /\ lt(x, f32(2^(k + 1))) :
         x \in {a}})

\* the natural logarithm of a >= 1 below 2^20, rounded to a multiple of
\* 1/LibDen: k * ln 2 + 2u(1 + u^2/3) with a = m * 2^k, u = (m-1)/(m+1)
ln(a) ==
    The({The({The({RoundTo(add(mul(f32(Log2Floor(x)), Rat(44, 64)),
                               mul(mul(f32(2), u),
                                   add(One, div(mul(u, u), f32(3))))),
                           LibDen) :
                   u \in {RoundTo(div(sub(m, One), add(m, One)), LibDen)}}) :
              m \in {RoundTo(div(x, f32(2^Log2Floor(x))), LibDen)}}) :
         x \in {a}})

\* pow(x, y) for x >= 0 and y > 0, from exp and ln; results above LibDen are
\* returned as LibDen
pow(x, y) ==
    The({IF b.n = 0 THEN Zero
         ELSE IF lt(b, One)
         THEN exp(neg(mul(y, ln(RoundTo(div(One, max(b, Rat(1, 1024))),
                                        LibDen)))))
         ELSE The({IF e.n = 0 THEN f32(LibDen) ELSE div(One, e) :
                   e \in {exp(neg(mul(y, ln(min(RoundTo(b, LibDen),
                                                 f32(2^19))))))}}) :
         b \in {x}})

\* sin and cos of a small angle 0 <= a < 1 (radians), rounded to a multiple of
\* 1/LibDen: a - a^3/6 and 1 - a^2/2
sin(a) ==
    The({RoundTo(sub(x, div(mul(x, mul(x, x)), f32(6))), LibDen) : x \in {a}})
cos(a) ==
    The({RoundTo(sub(One, div(mul(x, x), f32(2))), LibDen) : x \in {a}})

\* the least exponent e in 0..24 with a * 2^e >= 2^10, and 24 when there is
\* none (subnormal range of binary16); a > 0
F16Scale(a) ==
    The({CHOOSE e \in 0..24 :
            /\ e = 24 \/ ~lt(mul(x, f32(2^e)), f32(1024))
            /\ e = 0 \/ lt(mul(x, f32(2^(e - 1))), f32(1024)) :
         x \in {a}})

\* textureStore into rgba16float: the binary16 nearest to a (11-bit
\* significand, subnormals multiples of 2^-24, halves to even); |a| below
\* 2048
f16(a) ==
    The({IF x.n = 0 THEN Zero
         ELSE The({The({IF x.n < 0 THEN neg(v) ELSE v :
                        v \in {div(f32(RoundEven(mul(abs(x), f32(2^e)))),
                                   f32(2^e))}}) :
                   e \in {F16Scale(abs(x))}}) :
         x \in {a}})

\* textureStore into rgba8unorm: clamp to [0, 1] and round to a multiple of
\* 1/255
unorm8(a) == RoundTo(clamp(a, Zero, One), 255)

(* ---------------- shaders ---------------- *)
\* vectors are tuples of numbers
RECURSIVE SumOver(_, _, _)
\* the sum of the numbers seq[lo..hi], by halves
SumOver(seq, lo, hi) ==
    The({IF i > j THEN Zero
         ELSE IF i = j THEN terms[i]
         ELSE add(SumOver(terms, i, (i + j) \div 2),
                  SumOver(terms, ((i + j) \div 2) + 1, j)) :
         terms \in {seq}, i \in {lo}, j \in {hi}})
\* the terms are computed once each: seq \o <<>> is seq as a tuple
Sum(seq) == The({SumOver(terms, 1, Len(terms)) : terms \in {seq \o <<>>}})

dot(v, w) ==
    The({Sum([k \in DOMAIN x |-> mul(x[k], y[k])]) : x \in {v}, y \in {w}})
vec4f(c) == <<c, c, c, c>>

\* the texel coordinates of a texture of size texSize = <<width, height>>
Texels(texSize) == (0..(texSize[1] - 1)) \X (0..(texSize[2] - 1))

\* textureLoad(tex, coords, 0); a load outside the texture returns zero
textureLoad(tex, coords) ==
    The({IF c \in DOMAIN tex THEN tex[c] ELSE vec4f(Zero) : c \in {coords}})

\* the boundary check at the head of every entry point: TRUE when the
\* invocation returns at once
BoundaryCheck(coords, texSize) ==
    coords[1] >= texSize[1] \/ coords[2] >= texSize[2]

\* structure-tensor.wgsl
sobelX == << <<-1, 0, 1>>, <<-2, 0, 2>>, <<-1, 0, 1>> >>
sobelY == << <<-1, -2, -1>>, <<0, 0, 0>>, <<1, 2, 1>> >>

rgb2gray(color) ==
    The({dot(<<rgba[1], rgba[2], rgba[3]>>,
             <<Rat(299, 1000), Rat(587, 1000), Rat(114, 1000)>>) :
         rgba \in {color}})

\* the 3x3 neighbourhood in loop order: dy outer, dx inner
Neighbourhood == [k \in 1..9 |-> <<((k - 1) % 3) - 1, ((k - 1) \div 3) - 1>>]

\* clampedCoords of sampleLuminance without the clamp
clampedCoordsUnclamped(coords, texSize) == coords

\* clampedCoords of sampleLuminance
clampedCoords(coords, texSize) ==
    <<clampInt(coords[1], 0, texSize[1] - 1),
      clampInt(coords[2], 0, texSize[2] - 1)>>

sampleLuminance(inputTexture, coords, texSize) ==
    rgb2gray(textureLoad(inputTexture, clampedCoords(coords, texSize)))

\* computeMain of structure-tensor.wgsl past its boundary check: the value
\* stored at coords
structureTensor(inputTexture, coords, texSize) ==
    The({The({<<mul(Sx, Sx), mul(Sy, Sy), mul(Sx, Sy), One>> :
              Sx \in {Sum([k \in 1..9 |->
                        mul(luminance[k],
                            f32(sobelX[Neighbourhood[k][2] + 2]
                                      [Neighbourhood[k][1] + 2]))])},
              Sy \in {Sum([k \in 1..9 |->
                        mul(luminance[k],
                            f32(sobelY[Neighbourhood[k][2] + 2]
                                      [Neighbourhood[k][1] + 2]))])}}) :
         luminance \in {[k \in 1..9 |->
                            sampleLuminance(inputTexture,
                                <<coords[1] + Neighbourhood[k][1],
                                  coords[2] + Neighbourhood[k][2]>>,
                                texSize)] \o <<>>}})

\* the texels computeMain of structure-tensor.wgsl loads at coords
structureTensorLoads(coords, texSize) ==
    {clampedCoords(<<coords[1] + Neighbourhood[k][1],
                     coords[2] + Neighbourhood[k][2]>>, texSize) : k \in 1..9}

\* blur.wgsl
gaussianWeight(x, sigma) ==
    The({exp(div(neg(mul(x, x)), mul(f32(2), sigmaSq))) :
         sigmaSq \in {mul(sigma, sigma)}})

\* sampleCoords of horizontalBlur and verticalBlur at offset k along the axis
sampleCoordsBlur(isHorizontal, coords, texSize, k) ==
    IF isHorizontal
    THEN <<clampInt(coords[1] + k, 0, texSize[1] - 1), coords[2]>>
    ELSE <<coords[1], clampInt(coords[2] + k, 0, texSize[2] - 1)>>

\* horizontalBlur and verticalBlur without the clamp of sampleCoords: a
\* sample outside the texture is zero and its weight still counts
blurUnclamped(isHorizontal, inputTexture, coords, texSize, sigma, radius) ==
    LET n == 2 * radius + 1
        weight == [k \in 1..n |-> gaussianWeight(f32(k - radius - 1), sigma)]
        sample == [k \in 1..n |->
                     textureLoad(inputTexture,
                         IF isHorizontal
                         THEN <<coords[1] + k - radius - 1, coords[2]>>
                         ELSE <<coords[1], coords[2] + k - radius - 1>>)]
        weightSum == Sum(weight)
    IN  [c \in 1..4 |->
            div(Sum([k \in 1..n |-> mul(sample[k][c], weight[k])]), weightSum)]

\* horizontalBlur (isHorizontal) and verticalBlur
blur(isHorizontal, inputTexture, coords, texSize, sigma, radius) ==
    The({The({The({<<div(Sum([k \in 1..n |-> mul(sample[k][1], weight[k])]),
                         weightSum),
                     div(Sum([k \in 1..n |-> mul(sample[k][2], weight[k])]),
                         weightSum),
                     div(Sum([k \in 1..n |-> mul(sample[k][3], weight[k])]),
                         weightSum),
                     div(Sum([k \in 1..n |-> mul(sample[k][4], weight[k])]),
                         weightSum)>> :
                   weightSum \in {Sum(weight)}}) :
              weight \in {[k \in 1..n |->
                             gaussianWeight(f32(k - radius - 1), sigma)]
                          \o <<>>},
              sample \in {[k \in 1..n |->
                             textureLoad(inputTexture,
                                 sampleCoordsBlur(isHorizontal, coords,
                                                  texSize, k - radius - 1))]
                          \o <<>>}}) :
         n \in {2 * radius + 1}})

\* the texels a blur invocation loads at coords
blurLoads(isHorizontal, coords, texSize, radius) ==
    {sampleCoordsBlur(isHorizontal, coords, texSize, k) : k \in (-radius)..radius}

\* the eigenvector shader
\* An angle theta is held as the pair <<cos(theta), sin(theta)>>.
SQRT2_OVER_2 == Rat(45, 64)

\* the angles atan2(0, 0) may halve to: the result is indeterminate
Indeterminate == {<<One, Zero>>, <<Zero, One>>, <<SQRT2_OVER_2, SQRT2_OVER_2>>}

\* 0.5 * atan2(y, x); cosines and sines are rounded down to 1/LibDen
halfAtan2(y, x, indeterminate) ==
    IF y.n = 0 /\ x.n = 0 THEN indeterminate
    ELSE IF y.n = 0 THEN (IF x.n > 0 THEN <<One, Zero>> ELSE <<Zero, One>>)
    ELSE IF x.n = 0
         THEN <<SQRT2_OVER_2, IF y.n > 0 THEN SQRT2_OVER_2 ELSE neg(SQRT2_OVER_2)>>
    ELSE LET t == div(y, x)
             h == sqrt(add(One, mul(t, t)))
             cos2 == IF x.n > 0 THEN div(One, h) ELSE neg(div(One, h))
             c == sqrt(div(add(One, cos2), f32(2)))
             si == sqrt(div(sub(One, cos2), f32(2)))
         IN  <<c, IF y.n > 0 THEN si ELSE neg(si)>>

\* computeEigenvalues with the two eigenvalues exchanged
computeEigenvaluesExchanged(G_xx, G_yy, G_xy) ==
    LET trace == add(G_xx, G_yy)
        det == sub(mul(G_xx, G_yy), mul(G_xy, G_xy))
        discriminant == sub(mul(mul(trace, trace), Rat(1, 4)), det)
        sqrtDisc == sqrt(max(discriminant, Zero))
        halfTrace == mul(trace, Rat(1, 2))
    IN  <<sub(halfTrace, sqrtDisc), add(halfTrace, sqrtDisc)>>

computeEigenvalues(G_xx, G_yy, G_xy) ==
    LET trace == add(G_xx, G_yy)
        det == sub(mul(G_xx, G_yy), mul(G_xy, G_xy))
        discriminant == sub(mul(mul(trace, trace), Rat(1, 4)), det)
        sqrtDisc == sqrt(max(discriminant, Zero))
        halfTrace == mul(trace, Rat(1, 2))
        lambda1 == add(halfTrace, sqrtDisc)
        lambda2 == sub(halfTrace, sqrtDisc)
    IN  <<lambda1, lambda2>>

computeEigenvectorAngle(G_xx, G_yy, G_xy, indeterminate) ==
    LET numerator == mul(f32(2), G_xy)
        denominator == sub(G_xx, G_yy)
    IN  halfAtan2(numerator, denominator, indeterminate)

\* sum < EPSILON, EPSILON = 1e-10: the eigenvalues of a tensor read from an
\* rgba16float texture add up to a multiple of 2^-24, so a sum below EPSILON
\* is a sum that is not positive
BelowEPSILON(sum) == sum.n <= 0

\* computeAnisotropy that tests the sum for 0 only and returns 1.0 there
computeAnisotropyUntested(lambda1, lambda2) ==
    LET sum == add(lambda1, lambda2)
        diff == sub(lambda1, lambda2)
    IN  IF sum.n = 0 THEN One
        ELSE clamp(div(diff, sum), Zero, One)

\* computeAnisotropy; the EPSILON added to a positive sum is left out of the
\* quotient
computeAnisotropy(lambda1, lambda2) ==
    LET sum == add(lambda1, lambda2)
        diff == sub(lambda1, lambda2)
    IN  IF BelowEPSILON(sum) THEN Zero
        ELSE clamp(div(diff, sum), Zero, One)

analyzeStructureTensor(G_xx, G_yy, G_xy, indeterminate) ==
    LET eigenvalues == computeEigenvalues(G_xx, G_yy, G_xy)
    IN  [lambda1 |-> eigenvalues[1],
         lambda2 |-> eigenvalues[2],
         theta |-> computeEigenvectorAngle(G_xx, G_yy, G_xy, indeterminate),
         anisotropy |-> computeAnisotropy(eigenvalues[1], eigenvalues[2])]

\* computeMain of the eigenvector shader past its boundary check: eigenData
\* at coords, and the value stored from it
eigenDataAt(inputTexture, coords, indeterminate) ==
    LET tensor == textureLoad(inputTexture, coords)
    IN  analyzeStructureTensor(tensor[1], tensor[2], tensor[3], indeterminate)

eigenvector(eigenData) ==
    LET cosTheta == eigenData.theta[1]
        sinTheta == eigenData.theta[2]
    IN  <<cosTheta, sinTheta, eigenData.anisotropy, eigenData.lambda1>>

\* the Kuwahara shader
\* The transform of the offsets and the weights of the samples are held in
\* fixed point, as integer counts of 1/FixDen; the colour sums are exact.
FixDen == 256

\* the count of 1/FixDen nearest to the number a, and the number of a count
fixed(a) == The({r.n * (FixDen \div r.d) : r \in {RoundTo(a, FixDen)}})
number(x) == Q(x, FixDen)

\* product and quotient of counts, rounded to a count; y > 0 in fdiv
fmul(x, y) == (x * y + FixDen \div 2) \div FixDen
fdiv(x, y) == The({(x * FixDen + d \div 2) \div d : d \in {y}})

RECURSIVE IntSum(_, _, _)
\* the sum of the integers seq[lo..hi], by halves
IntSum(seq, lo, hi) ==
    The({IF i > j THEN 0
         ELSE IF i = j THEN terms[i]
         ELSE IntSum(terms, i, (i + j) \div 2)
              + IntSum(terms, ((i + j) \div 2) + 1, j) :
         terms \in {seq}, i \in {lo}, j \in {hi}})

\* a mean that is a multiple of 1/den is exact, any other is rounded to
\* fixed point
slash(a, den) ==
    The({IF den % x.d = 0 THEN x ELSE number(fixed(x)) : x \in {a}})

EPS == Rat(1, 1000000)

\* x > EPS for a count x: EPS is less than one count
aboveEPS(x) == x > 0

\* the uniform struct as the shaders read it from the buffer written by
\* setUniformParams: the slider values, and the zeta the service substitutes
kuwaharaParams(p) ==
    [kernelSize |-> p.kernelSize,
     sharpness |-> Rat(p.sharpness, SliderDen),
     hardness |-> Rat(p.hardness, SliderDen),
     alpha |-> Rat(p.alpha, SliderDen),
     zeroCrossing |-> Rat(p.zeroCrossing, SliderDen),
     zeta |-> effectiveZeta(p),
     sigma |-> Rat(p.sigma, SliderDen)]

\* clampedCoords of sampleTexture
clampedCoordsOriginal(coords, texSize) ==
    <<clampInt(coords[1], 0, texSize[1] - 1),
      clampInt(coords[2], 0, texSize[2] - 1)>>

sampleTexture(originalTexture, coords, texSize) ==
    The({<<texel[1], texel[2], texel[3]>> :
         texel \in {textureLoad(originalTexture,
                                clampedCoordsOriginal(coords, texSize))}})

Max0(x) == The({IF z < 0 THEN 0 ELSE z : z \in {x}})

\* weights[0..7] are the entries 1..8; v, zeta, eta and the weights are
\* counts
computePolynomialWeights(v, zeta, eta) ==
    The({The({The({The({<<fmul(z0, z0), fmul(z1, z1), fmul(z2, z2),
                          fmul(z3, z3), fmul(z4, z4), fmul(z5, z5),
                          fmul(z6, z6), fmul(z7, z7)>> :
                        z0 \in {Max0(vx[2] + vxx)},
                        z2 \in {Max0(-vx[1] + vyy)},
                        z4 \in {Max0(-vx[2] + vxx)},
                        z6 \in {Max0(vx[1] + vyy)},
                        z1 \in {Max0(rotated_v[2] + rxx)},
                        z3 \in {Max0(-rotated_v[1] + ryy)},
                        z5 \in {Max0(-rotated_v[2] + rxx)},
                        z7 \in {Max0(rotated_v[1] + ryy)}}) :
                   rxx \in {ze - fmul(fmul(et, rotated_v[1]), rotated_v[1])},
                   ryy \in {ze - fmul(fmul(et, rotated_v[2]), rotated_v[2])}}) :
              vxx \in {ze - fmul(fmul(et, vx[1]), vx[1])},
              vyy \in {ze - fmul(fmul(et, vx[2]), vx[2])},
              rotated_v \in {<<fmul(fixed(SQRT2_OVER_2), vx[1] - vx[2]),
                               fmul(fixed(SQRT2_OVER_2), vx[1] + vx[2])>>}}) :
         vx \in {v}, ze \in {zeta}, et \in {eta}})

\* the ellipse axes with the ratios bounded from above only
ellipseAxesNoFloor(alpha, anisotropy, kernelSize) ==
    LET safeAlpha == max(alpha, EPS)
        kernelRadius == mul(f32(kernelSize), Rat(1, 2))
        denomAB == max(add(alpha, anisotropy), EPS)
        a == mul(kernelRadius,
                 min(div(add(alpha, anisotropy), safeAlpha), f32(2)))
        b == mul(kernelRadius, min(div(safeAlpha, denomAB), f32(2)))
    IN  <<max(a, Rat(1, 1000)), max(b, Rat(1, 1000))>>

\* the ellipse axes <<a, b>> of computeMain
ellipseAxes(alpha, anisotropy, kernelSize) ==
    The({The({<<max(a, Rat(1, 1000)), max(b, Rat(1, 1000))>> :
              a \in {mul(kernelRadius,
                         clamp(div(numerAB, safeAlpha), Rat(1, 10), f32(2)))},
              b \in {mul(kernelRadius,
                         clamp(div(safeAlpha, denomAB), Rat(1, 10), f32(2)))}}) :
         safeAlpha \in {max(alpha, EPS)},
         kernelRadius \in {mul(f32(kernelSize), Rat(1, 2))},
         numerAB \in {add(alpha, anisotropy)},
         denomAB \in {max(add(alpha, anisotropy), EPS)}})

\* eta of computeMain
etaOf(zeta, zeroCrossing) ==
    The({IF lt(EPS, abs(sinZeroCross))
         THEN div(add(ze, cos(zeroCrossing)), mul(sinZeroCross, sinZeroCross))
         ELSE ze :
         ze \in {zeta}, sinZeroCross \in {sin(zeroCrossing)}})

\* the geometry of the neighbourhood of a pixel with eigenvector texel
\* eigenData4: the ellipse axes, the combined transform SR, in counts, and
\* the loop bounds
neighbourhood(eigenData4, u) ==
    The({The({The({[a |-> axes[1],
                    b |-> axes[2],
                    SR00 |-> fixed(mul(S00, cosTheta)),
                    SR01 |-> fixed(mul(S00, neg(sinTheta))),
                    SR10 |-> fixed(mul(S11, sinTheta)),
                    SR11 |-> fixed(mul(S11, cosTheta)),
                    max_x |-> ceil(sqrt(add(mul(aa, cos_phi_sq),
                                            mul(bb, sin_phi_sq)))),
                    max_y |-> ceil(sqrt(add(mul(aa, sin_phi_sq),
                                            mul(bb, cos_phi_sq))))] :
                   S00 \in {div(One, axes[1])},
                   S11 \in {div(One, axes[2])},
                   aa \in {number(fmul(fixed(axes[1]), fixed(axes[1])))},
                   bb \in {number(fmul(fixed(axes[2]), fixed(axes[2])))}}) :
              axes \in {ellipseAxes(u.alpha, anisotropy, u.kernelSize)},
              cos_phi_sq \in {mul(cosTheta, cosTheta)},
              sin_phi_sq \in {mul(sinTheta, sinTheta)}}) :
         cosTheta \in {eigenData4[1]},
         sinTheta \in {eigenData4[2]},
         anisotropy \in {eigenData4[3]}})

\* the offsets <<x, y>> of the bounding box in loop order: y outer, x inner
Offsets(max_x, max_y) ==
    The({[i \in 1..((2 * mx + 1) * (2 * my + 1)) |->
             <<((i - 1) % (2 * mx + 1)) - mx,
               ((i - 1) \div (2 * mx + 1)) - my>>] \o <<>> :
         mx \in {max_x}, my \in {max_y}})

\* v = SR * [x, y], in counts
transformed(g, x, y) == <<g.SR00 * x + g.SR01 * y, g.SR10 * x + g.SR11 * y>>

\* vdot <= 1.0 for v in counts
Sampled(v) ==
    \E vx \in {v} :
        /\ Abs(vx[1]) <= FixDen
        /\ Abs(vx[2]) <= FixDen
        /\ fmul(vx[1], vx[1]) + fmul(vx[2], vx[2]) <= FixDen

\* the eight final weights, in counts, of the sample at offset <<x, y>>; all
\* zero when the sample is outside the unit circle or skipped
finalWeights(g, x, y, zeta, eta) ==
    The({IF ~Sampled(v) THEN <<0, 0, 0, 0, 0, 0, 0, 0>>
         ELSE The({The({IF ~aboveEPS(weightSum) THEN <<0, 0, 0, 0, 0, 0, 0, 0>>
                        ELSE <<fmul(fdiv(polyWeights[1], weightSum), gaussian),
                               fmul(fdiv(polyWeights[2], weightSum), gaussian),
                               fmul(fdiv(polyWeights[3], weightSum), gaussian),
                               fmul(fdiv(polyWeights[4], weightSum), gaussian),
                               fmul(fdiv(polyWeights[5], weightSum), gaussian),
                               fmul(fdiv(polyWeights[6], weightSum), gaussian),
                               fmul(fdiv(polyWeights[7], weightSum), gaussian),
                               fmul(fdiv(polyWeights[8], weightSum), gaussian)>> :
                        weightSum \in {polyWeights[1] + polyWeights[2]
                                       + polyWeights[3] + polyWeights[4]
                                       + polyWeights[5] + polyWeights[6]
                                       + polyWeights[7] + polyWeights[8]}}) :
                   polyWeights \in {computePolynomialWeights(v, zeta, eta)},
                   gaussian \in {fixed(exp(Q(-25 * (fmul(v[1], v[1])
                                                    + fmul(v[2], v[2])),
                                             8 * FixDen)))}}) :
         v \in {transformed(g, x, y)}})

\* the numerator of a channel of an rgba8unorm texel
Unorm8Of(channel) == mul(clamp(channel, Zero, One), f32(255)).n

RECURSIVE Samples(_, _, _, _, _, _, _, _, _)
\* the sampling loop of computeMain over the offsets numbered lo..hi: for
\* every offset the saturated colour of the sample, as numerators over 255,
\* and its eight final weights
Samples(originalTexture, coords, texSize, g, zeta, eta, offsets, lo, hi) ==
    The({IF i > j THEN <<>>
         ELSE IF i = j
         THEN The({<< [saturatedColor |->
                          <<Unorm8Of(color[1]), Unorm8Of(color[2]),
                            Unorm8Of(color[3])>>,
                       finalWeight |->
                          finalWeights(g, offsets[i][1], offsets[i][2],
                                       zeta, eta)] >> :
                   color \in {sampleTexture(originalTexture,
                                            <<coords[1] + offsets[i][1],
                                              coords[2] + offsets[i][2]>>,
                                            texSize)}})
         ELSE Samples(originalTexture, coords, texSize, g, zeta, eta, offsets,
                      i, (i + j) \div 2)
              \o Samples(originalTexture, coords, texSize, g, zeta, eta,
                         offsets, ((i + j) \div 2) + 1, j) :
         i \in {lo}, j \in {hi}})

\* sectors[k] after the sampling loop, with the colour in place of its
\* square in colorSqSum
SectorStatisticsUnsquared(samples, k) ==
    The({The({[colorSum |-> colorSum,
               colorSqSum |-> colorSum,
               weightSum |->
                  Q(IntSum([i \in 1..Len(taken) |-> taken[i].finalWeight[k]],
                           1, Len(taken)), FixDen)] :
              colorSum \in {[c \in 1..3 |->
                  Q(IntSum([i \in 1..Len(taken) |->
                               taken[i].saturatedColor[c]
                                   * taken[i].finalWeight[k]],
                           1, Len(taken)), 255 * FixDen)] \o <<>>}}) :
         taken \in {samples}})

\* sectors[k] after the sampling loop
SectorStatistics(samples, k) ==
    The({[colorSum |->
             [c \in 1..3 |->
                  Q(IntSum([i \in 1..Len(taken) |->
                               taken[i].saturatedColor[c]
                                   * taken[i].finalWeight[k]],
                           1, Len(taken)), 255 * FixDen)] \o <<>>,
          colorSqSum |->
             [c \in 1..3 |->
                  Q(IntSum([i \in 1..Len(taken) |->
                               taken[i].saturatedColor[c]
                                   * taken[i].saturatedColor[c]
                                   * taken[i].finalWeight[k]],
                           1, Len(taken)), 255 * 255 * FixDen)] \o <<>>,
          weightSum |->
             Q(IntSum([i \in 1..Len(taken) |-> taken[i].finalWeight[k]],
                      1, Len(taken)), FixDen)] :
         taken \in {samples}})

\* the statistics of the eight sectors of the pixel at coords
sectorStatistics(originalTexture, coords, texSize, g, u) ==
    The({The({<<SectorStatistics(samples, 1), SectorStatistics(samples, 2),
                SectorStatistics(samples, 3), SectorStatistics(samples, 4),
                SectorStatistics(samples, 5), SectorStatistics(samples, 6),
                SectorStatistics(samples, 7), SectorStatistics(samples, 8)>> :
              samples \in {Samples(originalTexture, coords, texSize, g,
                                   zeta, eta, offsets, 1, Len(offsets))}}) :
         offsets \in {Offsets(g.max_x, g.max_y)},
         zeta \in {fixed(u.zeta)},
         eta \in {fixed(etaOf(u.zeta, u.zeroCrossing))}})

sectorMean(sector) ==
    <<slash(div(sector.colorSum[1], sector.weightSum), 255),
      slash(div(sector.colorSum[2], sector.weightSum), 255),
      slash(div(sector.colorSum[3], sector.weightSum), 255)>>

\* variance of channel c of a sector
variance(sector, c) ==
    The({sub(slash(div(sector.colorSqSum[c], sector.weightSum), 255 * 255),
             mul(mean, mean)) :
         mean \in {slash(div(sector.colorSum[c], sector.weightSum), 255)}})

\* what the loop over the sectors computes for a sector whose weightSum is
\* above EPS: its mean, sigma2 (the sum of the variances of the channels,
\* each at least 0) and selectionWeight
sectorBlend(sector, u) ==
    The({The({[mean |-> sectorMean(sector),
               sigma2 |-> sigma2,
               baseClamped |-> baseClamped,
               selectionWeight |->
                  number(fixed(div(One,
                      add(One, pow(baseClamped,
                                   mul(Rat(1, 2), u.sharpness))))))] :
              baseClamped \in {max(mul(mul(max(u.hardness, Zero), f32(1000)),
                                       sigma2), Zero)}}) :
         sigma2 \in {add(add(max(variance(sector, 1), Zero),
                             max(variance(sector, 2), Zero)),
                         max(variance(sector, 3), Zero))}})

\* what the loop over the sectors adds for one sector: mean * selectionWeight
\* to finalColor and selectionWeight to totalSelectionWeight, and nothing
\* when the weightSum of the sector is not above EPS
blendTerm(sector, u) ==
    IF lt(EPS, sector.weightSum)
    THEN The({<<mul(b.mean[1], b.selectionWeight),
                mul(b.mean[2], b.selectionWeight),
                mul(b.mean[3], b.selectionWeight), b.selectionWeight>> :
              b \in {sectorBlend(sector, u)}})
    ELSE <<Zero, Zero, Zero, Zero>>

\* the loop over the sectors: <<finalColor, totalSelectionWeight>>
blend(sectors, u) ==
    The({<<<<Sum([k \in 1..8 |-> term[k][1]]), Sum([k \in 1..8 |-> term[k][2]]),
             Sum([k \in 1..8 |-> term[k][3]])>>,
           Sum([k \in 1..8 |-> term[k][4]])>> :
         term \in {<<blendTerm(sectors[1], u), blendTerm(sectors[2], u),
                     blendTerm(sectors[3], u), blendTerm(sectors[4], u),
                     blendTerm(sectors[5], u), blendTerm(sectors[6], u),
                     blendTerm(sectors[7], u), blendTerm(sectors[8], u)>>}})

\* the result of computeMain from finalColor and totalSelectionWeight
resultOf(originalTexture, coords, texSize, blended) ==
    IF lt(EPS, blended[2])
    THEN <<slash(div(blended[1][1], blended[2]), 255),
           slash(div(blended[1][2], blended[2]), 255),
           slash(div(blended[1][3], blended[2]), 255)>>
    ELSE sampleTexture(originalTexture, coords, texSize)

\* computeMain of the Kuwahara shader past its bounds check: the geometry of
\* the neighbourhood, the statistics of the sectors, the blend of the sectors
\* and the result
kuwahara(originalTexture, eigenvectorTexture, coords, texSize, u) ==
    The({The({The({[neighbourhood |-> g,
                    sectors |-> sectors,
                    blended |-> blended,
                    result |-> resultOf(originalTexture, coords, texSize,
                                        blended)] :
                   blended \in {blend(sectors, un)}}) :
              sectors \in {sectorStatistics(originalTexture, coords, texSize,
                                            g, un)}}) :
         g \in {neighbourhood(textureLoad(eigenvectorTexture, coords), u)},
         un \in {u}})

\* vec4f(clampedResult, 1.0)
clampedResult(result) ==
    <<clamp(result[1], Zero, One), clamp(result[2], Zero, One),
      clamp(result[3], Zero, One), One>>

\* the texels of the original texture computeMain loads at coords
kuwaharaLoads(eigenvectorTexture, coords, texSize, u) ==
    The({The({{clampedCoordsOriginal(<<coords[1] + offsets[i][1],
                                       coords[2] + offsets[i][2]>>, texSize) :
                  i \in {j \in DOMAIN offsets :
                            Sampled(transformed(g, offsets[j][1],
                                                offsets[j][2]))}} :
              offsets \in {Offsets(g.max_x, g.max_y)}}) :
         g \in {neighbourhood(textureLoad(eigenvectorTexture, coords), u)}})

(* ---------------- state ---------------- *)
VARIABLES
    core,       \* WebGPUCore: the fields of the instance the services
                \* captured, and the static field instance ("captured" for
                \* that instance, "null", "new" for one created later)
    initPc,     \* position of every call of WebGPUCore.initialize, by call
    textures,   \* every GPUTexture created so far, by id
    queue,      \* every operation submitted to device.queue so far, in order
    completed,  \* number of queue operations the GPU has finished, in order
    store,      \* TextureManagerService.textures
    svc,        \* fields of the KuwaharaService instance
    runs,       \* pending runKuwahara calls
    loads,      \* handleFileSelect calls that are inside loadImage
    numLoads,   \* loadImage calls so far
    ui,         \* refs of the ImageEditor component
    writes,     \* history: every store.set so far
    invs,       \* history: every runKuwahara invocation
    gpu         \* the texels of the textures of one run, pass by pass

vars == <<core, initPc, textures, queue, completed, store, svc, runs, loads,
          numLoads, ui, writes, invs, gpu>>

RunIds == 1..NumRuns
HandlerIds == DOMAIN loads

\* the image files the user picks one after the other, by decoded size
Images == <<[width |-> 3, height |-> 2], [width |-> 1, height |-> 1]>>

NoEntry == [texture |-> 0, width |-> 0, height |-> 0, format |-> "none"]
ManagedTexture(t, w, h, f) ==
    [texture |-> t, width |-> w, height |-> h, format |-> f]

IdleRun == [pc |-> "idle", inv |-> 0, stage |-> "none",
            inputTexture |-> NoEntry, outputTexture |-> 0, waitOp |-> 0,
            owner |-> "none"]
IdleLoad == [pc |-> "idle", image |-> [width |-> 0, height |-> 0]]

\* the texels are not followed
NoTexels == [pc |-> "off"]

\* the fields of the component and of the services after construction, for a
\* client that makes calls calls of initialize and a user with at most
\* handlers file selections pending at a time
ProgramInitOf(calls, handlers) ==
    /\ core = [device |-> FALSE, adapter |-> FALSE, context |-> FALSE,
               canvas |-> FALSE, canvasWidth |-> 0, canvasHeight |-> 0,
               instance |-> "captured"]
    /\ initPc = [c \in 1..calls |-> "idle"]
    /\ textures = <<>>
    /\ queue = <<>>
    /\ completed = 0
    /\ store = [k \in Keys |-> NoEntry]
    /\ svc = [kuwaharaParams |-> NoParams, kuwaharaParamsBuffer |-> <<>>,
              structureTensorTexture |-> 0, kuwaharaOutputTexture |-> 0]
    /\ runs = [r \in RunIds |-> IdleRun]
    /\ loads = [l \in 1..handlers |-> IdleLoad]
    /\ numLoads = 0
    /\ ui = [mounted |-> TRUE, loading |-> FALSE, processing |-> FALSE,
             imageLoaded |-> FALSE, error |-> "",
             kuwaharaParams |-> DefaultParams]
    /\ writes = {}
    /\ invs = <<>>

\* the component calls initialize once, in onMounted
ProgramInit == ProgramInitOf(1, NumHandlers)

Init ==
    /\ ProgramInit
    /\ gpu = NoTexels

(* ---------------- device context ---------------- *)
\* configureContext(width, height) on the core record c
configureContext(c, width, height) ==
    IF ~c.context \/ ~c.device \/ ~c.canvas THEN c
    ELSE IF width # 0 /\ height # 0
         THEN [c EXCEPT !.canvasWidth = width, !.canvasHeight = height]
         ELSE c

\* call c of WebGPUCore.initialize up to the await of requestAdapter, or up
\* to its return when the device is there
initializeStart(c) ==
    /\ initPc[c] = "idle"
    /\ ui.mounted
    /\ IF core.device
       THEN initPc' = [initPc EXCEPT ![c] = "returned"] /\ UNCHANGED core
       ELSE /\ initPc' = [initPc EXCEPT ![c] = "adapter"]
            /\ core' = [core EXCEPT !.canvas = TRUE]
    /\ UNCHANGED <<gpu, textures, queue, completed, store, svc, runs, loads,
                   numLoads, ui, writes, invs>>

\* requestAdapter resolves (with an adapter or with null)
initializeAdapter(c, ok) ==
    /\ initPc[c] = "adapter"
    /\ core' = [core EXCEPT !.adapter = ok]
    /\ initPc' = [initPc EXCEPT ![c] = IF ok THEN "device" ELSE "failed"]
    /\ ui' = IF ok THEN ui ELSE [ui EXCEPT !.error = "Failed to get GPU adapter"]
    /\ UNCHANGED <<gpu, textures, queue, completed, store, svc, runs, loads,
                   numLoads, writes, invs>>

\* requestDevice resolves: device, context, configureContext()
initializeDevice(c) ==
    /\ initPc[c] = "device"
    /\ core' = configureContext(
                  [core EXCEPT !.device = TRUE, !.context = TRUE], 0, 0)
    /\ initPc' = [initPc EXCEPT ![c] = "done"]
    /\ UNCHANGED <<gpu, textures, queue, completed, store, svc, runs, loads,
                   numLoads, ui, writes, invs>>

\* WebGPUCore.destroy
destroyCore(c) ==
    [c EXCEPT !.device = FALSE, !.context = FALSE, !.canvas = FALSE,
              !.adapter = FALSE, !.instance = "null"]

\* WebGPUCore.getInstance called by a later client: the static field after
\* the call, which is the instance returned
getInstance ==
    /\ core' = [core EXCEPT !.instance = IF @ = "null" THEN "new" ELSE @]
    /\ UNCHANGED <<gpu, initPc, textures, queue, completed, store, svc, runs,
                   loads, numLoads, ui, writes, invs>>

(* ---------------- texture store and queue ---------------- *)
InStore(t) == \E k \in Keys : store[k].texture = t

\* TextureManagerService.destroyAll: the textures after destroying the stored
destroyAll ==
    [t \in DOMAIN textures |->
        IF InStore(t) THEN [textures[t] EXCEPT !.destroyed = TRUE]
        ELSE textures[t]]

\* TextureManagerService.setTexture / textures.set
setTexture(st, key, managed) == [st EXCEPT ![key] = managed]

\* device.createTexture
createTexture(w, h, f) ==
    [width |-> w, height |-> h, format |-> f, destroyed |-> FALSE]

\* some queue operation writes texture t, and all that do have finished
Written(t) ==
    /\ \E k \in DOMAIN queue : queue[k].output = t
    /\ \A k \in DOMAIN queue : queue[k].output = t => k <= completed

\* a queue operation submitted now: a compute dispatch of stage s of
\* invocation i, or the upload of an image (stage "upload", invocation 0)
Operation(s, i, inputs, output, buffer, p) ==
    [stage |-> s, inv |-> i, inputs |-> inputs, output |-> output,
     buffer |-> buffer, params |-> p,
     inputsWritten |-> \A t \in inputs : Written(t),
     inputsAlive |-> \A t \in inputs : ~textures[t].destroyed]

\* the GPU finishes the oldest unfinished queue operation
GpuComplete ==
    /\ completed < Len(queue)
    /\ completed' = completed + 1
    /\ UNCHANGED <<gpu, core, initPc, textures, queue, store, svc, runs, loads,
                   numLoads, ui, writes, invs>>

(* ---------------- pipeline stages ---------------- *)
\* outcome of the synchronous part of a stage (up to its await): either the
\* stage threw, or it created its output texture and submitted its dispatch
Thrown(err, svc0) ==
    [thrown |-> TRUE, error |-> err, svc |-> svc0,
     created |-> <<>>, submitted |-> <<>>,
     inputTexture |-> NoEntry, outputTexture |-> 0]
Submitted(tex, op, svc1, input, output) ==
    [thrown |-> FALSE, error |-> "", svc |-> svc1,
     created |-> <<tex>>, submitted |-> <<op>>,
     inputTexture |-> input, outputTexture |-> output]

\* runStructureTensorComputation that keeps the texture of the previous run
\* as its output when there is one
runStructureTensorComputationReuse(i, svc0) ==
    IF ~core.device THEN Thrown("DeviceUninitialized", svc0)
    ELSE LET inputTexture == store["original"] IN
         IF inputTexture = NoEntry THEN Thrown("MissingInputImage", svc0)
         ELSE IF svc0.structureTensorTexture # 0
         THEN [Submitted(
                 createTexture(inputTexture.width, inputTexture.height,
                               "rgba16float"),
                 Operation("st", i, {inputTexture.texture},
                           svc0.structureTensorTexture, <<>>, NoParams),
                 svc0, inputTexture, svc0.structureTensorTexture)
               EXCEPT !.created = <<>>]
         ELSE LET svc1 == [svc0 EXCEPT
                             !.structureTensorTexture = Len(textures) + 1]
              IN  Submitted(
                    createTexture(inputTexture.width, inputTexture.height,
                                  "rgba16float"),
                    Operation("st", i, {inputTexture.texture},
                              svc1.structureTensorTexture, <<>>, NoParams),
                    svc1, inputTexture, svc1.structureTensorTexture)

\* KuwaharaService.runStructureTensorComputation up to its await
runStructureTensorComputation(i, svc0) ==
    IF ~core.device THEN Thrown("DeviceUninitialized", svc0)
    ELSE LET inputTexture == store["original"] IN
         IF inputTexture = NoEntry THEN Thrown("MissingInputImage", svc0)
         ELSE LET svc1 == [svc0 EXCEPT
                             !.structureTensorTexture = Len(textures) + 1]
              IN  Submitted(
                    createTexture(inputTexture.width, inputTexture.height,
                                  "rgba16float"),
                    Operation("st", i, {inputTexture.texture},
                              svc1.structureTensorTexture, <<>>, NoParams),
                    svc1, inputTexture, svc1.structureTensorTexture)

\* gaussianBlurPass whose horizontal pass looks up the image instead of the
\* structure tensor
gaussianBlurPassOfImage(isHorizontal, i, svc0) ==
    IF ~core.device THEN Thrown("DeviceUninitialized", svc0)
    ELSE LET inputTexture == IF isHorizontal THEN store["original"]
                             ELSE store["horizontal_blur"]
         IN
         IF inputTexture = NoEntry THEN Thrown("MissingInputImage", svc0)
         ELSE LET outputTexture == Len(textures) + 1
                  svc1 == [svc0 EXCEPT !.kuwaharaParamsBuffer =
                                          writeBuffer[svc0.kuwaharaParams]]
              IN  Submitted(
                    createTexture(inputTexture.width, inputTexture.height,
                                  "rgba16float"),
                    Operation(IF isHorizontal THEN "hb" ELSE "vb", i,
                              {inputTexture.texture}, outputTexture,
                              svc1.kuwaharaParamsBuffer, svc0.kuwaharaParams),
                    svc1, inputTexture, outputTexture)

\* KuwaharaService.gaussianBlurPass up to its await
gaussianBlurPass(isHorizontal, i, svc0) ==
    IF ~core.device THEN Thrown("DeviceUninitialized", svc0)
    ELSE LET inputTexture == IF isHorizontal THEN store["structure_tensor"]
                             ELSE store["horizontal_blur"]
         IN
         IF inputTexture = NoEntry THEN Thrown("MissingInputImage", svc0)
         ELSE LET outputTexture == Len(textures) + 1
                  svc1 == [svc0 EXCEPT !.kuwaharaParamsBuffer =
                                          writeBuffer[svc0.kuwaharaParams]]
              IN  Submitted(
                    createTexture(inputTexture.width, inputTexture.height,
                                  "rgba16float"),
                    Operation(IF isHorizontal THEN "hb" ELSE "vb", i,
                              {inputTexture.texture}, outputTexture,
                              svc1.kuwaharaParamsBuffer, svc0.kuwaharaParams),
                    svc1, inputTexture, outputTexture)

\* runEigenvectorAnalysis that goes on with a device it captured earlier
\* instead of asking getDevice
runEigenvectorAnalysisStale(i, svc0) ==
    LET inputTexture == store["blur_output"] IN
    IF inputTexture = NoEntry THEN Thrown("MissingInputImage", svc0)
    ELSE LET outputTexture == Len(textures) + 1
         IN  Submitted(
               createTexture(inputTexture.width, inputTexture.height,
                             "rgba16float"),
               Operation("ev", i, {inputTexture.texture}, outputTexture,
                         <<>>, NoParams),
               svc0, inputTexture, outputTexture)

\* KuwaharaService.runEigenvectorAnalysis up to its await
runEigenvectorAnalysis(i, svc0) ==
    IF ~core.device THEN Thrown("DeviceUninitialized", svc0)
    ELSE LET inputTexture == store["blur_output"] IN
         IF inputTexture = NoEntry THEN Thrown("MissingInputImage", svc0)
         ELSE LET outputTexture == Len(textures) + 1
              IN  Submitted(
                    createTexture(inputTexture.width, inputTexture.height,
                                  "rgba16float"),
                    Operation("ev", i, {inputTexture.texture}, outputTexture,
                              <<>>, NoParams),
                    svc0, inputTexture, outputTexture)

\* runKuwaharaFiltering that binds the smoothed tensor where the shader
\* expects the eigenvector texture
runKuwaharaFilteringOfBlur(i, svc0) ==
    IF ~core.device THEN Thrown("DeviceUninitialized", svc0)
    ELSE LET originalTexture == store["original"]
             eigenvectorTexture == store["blur_output"]
         IN
         IF originalTexture = NoEntry \/ eigenvectorTexture = NoEntry
         THEN Thrown("MissingInputImage", svc0)
         ELSE LET svc1 == [svc0 EXCEPT
                             !.kuwaharaOutputTexture = Len(textures) + 1]
              IN  Submitted(
                    createTexture(originalTexture.width, originalTexture.height,
                                  "rgba8unorm"),
                    Operation("kf", i,
                              {originalTexture.texture,
                               eigenvectorTexture.texture},
                              svc1.kuwaharaOutputTexture,
                              svc0.kuwaharaParamsBuffer, NoParams),
                    svc1, originalTexture, svc1.kuwaharaOutputTexture)

\* KuwaharaService.runKuwaharaFiltering up to its await
runKuwaharaFiltering(i, svc0) ==
    IF ~core.device THEN Thrown("DeviceUninitialized", svc0)
    ELSE LET originalTexture == store["original"]
             eigenvectorTexture == store["eigenvector_output"]
         IN
         IF originalTexture = NoEntry \/ eigenvectorTexture = NoEntry
         THEN Thrown("MissingInputImage", svc0)
         ELSE LET svc1 == [svc0 EXCEPT
                             !.kuwaharaOutputTexture = Len(textures) + 1]
              IN  Submitted(
                    createTexture(originalTexture.width, originalTexture.height,
                                  "rgba8unorm"),
                    Operation("kf", i,
                              {originalTexture.texture,
                               eigenvectorTexture.texture},
                              svc1.kuwaharaOutputTexture,
                              svc0.kuwaharaParamsBuffer, NoParams),
                    svc1, originalTexture, svc1.kuwaharaOutputTexture)

\* the order in which runKuwahara and runStructureTensorSmoothing await the
\* stages
StageOrder == <<"st", "hb", "vb", "ev", "kf">>

\* NextStageOf that leaves out the vertical blur
NextStageOfSkip(s) ==
    IF s = "hb" THEN "ev"
    ELSE LET n == CHOOSE k \in DOMAIN StageOrder : StageOrder[k] = s
         IN  IF n < Len(StageOrder) THEN StageOrder[n + 1] ELSE "none"

\* the stage that runKuwahara starts after stage s has resolved
NextStageOf(s) ==
    LET n == CHOOSE k \in DOMAIN StageOrder : StageOrder[k] = s
    IN  IF n < Len(StageOrder) THEN StageOrder[n + 1] ELSE "none"

\* the synchronous part of stage s of invocation i
StageCall(s, i, svc0) ==
    CASE s = "st" -> runStructureTensorComputation(i, svc0)
      [] s = "hb" -> gaussianBlurPass(TRUE, i, svc0)
      [] s = "vb" -> gaussianBlurPass(FALSE, i, svc0)
      [] s = "ev" -> runEigenvectorAnalysis(i, svc0)
      [] OTHER -> runKuwaharaFiltering(i, svc0)

\* a store.set of texture t under key by invocation i (0: loadImage)
Write(key, t, i) ==
    [key |-> key, texture |-> t, inv |-> i, written |-> Written(t)]

\* runKuwahara of slot r settles: catch and finally of applyKuwaharaFilter,
\* then the finally of the handleFileSelect call that awaited it, if one did
Settle(r, err, runs0, ui0) ==
    /\ runs' = [runs0 EXCEPT ![r] = IdleRun]
    /\ ui' = [ui0 EXCEPT !.processing = FALSE,
                         !.error = IF err # "" THEN err ELSE @,
                         !.loading = IF runs0[r].owner = "handler"
                                     THEN FALSE ELSE @]

\* Begin that swallows the error of a failed stage and lets the run go on
\* with the next stage
BeginSwallow(r, s, out, runs0, invs0, ui0) ==
    LET i == runs0[r].inv IN
    /\ svc' = out.svc
    /\ IF out.thrown
       THEN /\ invs' = [invs0 EXCEPT ![i].error = out.error,
                                     ![i].failedStage = s]
            /\ IF s = "kf"
               THEN Settle(r, out.error, runs0, ui0)
               ELSE /\ runs' = [runs0 EXCEPT ![r].pc = "next", ![r].stage = s]
                    /\ ui' = ui0
            /\ UNCHANGED <<textures, queue>>
       ELSE /\ Len(textures) < MaxTextures
            /\ textures' = textures \o out.created
            /\ queue' = queue \o out.submitted
            /\ runs' = [runs0 EXCEPT ![r].pc = "wait", ![r].stage = s,
                                     ![r].inputTexture = out.inputTexture,
                                     ![r].outputTexture = out.outputTexture,
                                     ![r].waitOp = Len(queue')]
            /\ invs' = invs0
            /\ ui' = ui0

\* run slot r takes the outcome out of stage s: it suspends at the GPU wait,
\* or the stage threw and the run rejects
Begin(r, s, out, runs0, invs0, ui0) ==
    LET i == runs0[r].inv IN
    /\ svc' = out.svc
    /\ IF out.thrown
       THEN /\ invs' = [invs0 EXCEPT ![i].status = "rejected",
                                     ![i].error = out.error,
                                     ![i].failedStage = s]
            /\ Settle(r, out.error, runs0, ui0)
            /\ UNCHANGED <<textures, queue>>
       ELSE /\ Len(textures) < MaxTextures
            /\ textures' = textures \o out.created
            /\ queue' = queue \o out.submitted
            /\ runs' = [runs0 EXCEPT ![r].pc = "wait", ![r].stage = s,
                                     ![r].inputTexture = out.inputTexture,
                                     ![r].outputTexture = out.outputTexture,
                                     ![r].waitOp = Len(queue')]
            /\ invs' = invs0
            /\ ui' = ui0

\* runKuwahara(p) called for run slot r on behalf of owner ("watch" or
\* "handler"): the parameters are stored and the first stage runs up to its
\* await
runKuwahara(r, p, owner, ui0) ==
    LET i == Len(invs) + 1
        svc0 == [svc EXCEPT !.kuwaharaParams = p]
        runs0 == [runs EXCEPT ![r] = [IdleRun EXCEPT !.inv = i, !.owner = owner]]
        invs0 == Append(invs, [params |-> p, status |-> "running",
                               error |-> "", failedStage |-> "none"])
    IN  /\ runs[r].pc = "idle"
        /\ \A q \in RunIds : q < r => runs[q].pc # "idle"
        /\ Len(invs) < MaxInvocations
        /\ Begin(r, "st", StageCall("st", i, svc0), runs0, invs0, ui0)

\* the texture a stage publishes after its wait, and the key it uses
PublishedTexture(r) ==
    CASE runs[r].stage = "st" -> svc.structureTensorTexture
      [] runs[r].stage = "kf" -> svc.kuwaharaOutputTexture
      [] OTHER -> runs[r].outputTexture
OutKey(s) ==
    CASE s = "st" -> "structure_tensor" [] s = "hb" -> "horizontal_blur"
      [] s = "vb" -> "blur_output" [] s = "ev" -> "eigenvector_output"
      [] OTHER -> "kuwahara_output"
OutFormat(s) == IF s = "kf" THEN "rgba8unorm" ELSE "rgba16float"

\* StageResume without the await of onSubmittedWorkDone: the stage stores its
\* output right after the submit
StageResumeNoWait(r) ==
    LET s == runs[r].stage
        t == PublishedTexture(r)
        input == runs[r].inputTexture
    IN  /\ runs[r].pc = "wait"
        /\ store' = setTexture(store, OutKey(s),
                       ManagedTexture(t, input.width, input.height, OutFormat(s)))
        /\ writes' = writes \cup {Write(OutKey(s), t, runs[r].inv)}
        /\ IF s = "kf"
           THEN /\ invs' = [invs EXCEPT ![runs[r].inv].status = "resolved"]
                /\ Settle(r, "", runs, ui)
           ELSE /\ runs' = [runs EXCEPT ![r].pc = "next"]
                /\ UNCHANGED <<invs, ui>>
        /\ UNCHANGED <<gpu, core, initPc, textures, queue, completed, svc, loads,
                       numLoads>>

\* onSubmittedWorkDone resolves for run slot r: the stage stores its output;
\* after the last stage runKuwahara resolves
StageResume(r) ==
    LET s == runs[r].stage
        t == PublishedTexture(r)
        input == runs[r].inputTexture
    IN  /\ runs[r].pc = "wait"
        /\ completed >= runs[r].waitOp
        /\ \A q \in RunIds :
              runs[q].pc = "wait" => runs[q].waitOp >= runs[r].waitOp
        /\ store' = setTexture(store, OutKey(s),
                       ManagedTexture(t, input.width, input.height, OutFormat(s)))
        /\ writes' = writes \cup {Write(OutKey(s), t, runs[r].inv)}
        /\ IF s = "kf"
           THEN /\ invs' = [invs EXCEPT ![runs[r].inv].status = "resolved"]
                /\ Settle(r, "", runs, ui)
           ELSE /\ runs' = [runs EXCEPT ![r].pc = "next"]
                /\ UNCHANGED <<invs, ui>>
        /\ UNCHANGED <<gpu, core, initPc, textures, queue, completed, svc, loads,
                       numLoads>>

\* runKuwahara continues after the await of a stage with the next stage
StageNext(r) ==
    LET s == NextStageOf(runs[r].stage) IN
    /\ runs[r].pc = "next"
    /\ Begin(r, s, StageCall(s, runs[r].inv, svc), runs, invs, ui)
    /\ UNCHANGED <<gpu, core, initPc, completed, store, loads, numLoads, writes>>

(* ---------------- editor and component ---------------- *)
\* ImageEditorService.runKuwaharaFilter(p): hands the parameters to the
\* KuwaharaService of the editor
runKuwaharaFilter(r, p, owner, ui0) == runKuwahara(r, p, owner, ui0)

\* applyKuwaharaFilter up to its await, called by the watcher or by
\* handleFileSelect
applyKuwaharaFilter(r, owner, ui0) ==
    runKuwaharaFilter(r, ui0.kuwaharaParams, owner,
                      [ui0 EXCEPT !.processing = TRUE])

\* a slider moves (the sliders are shown once imageLoaded is set): the
\* watcher of kuwaharaParams runs
watchKuwaharaParams(p, r) ==
    /\ ui.mounted
    /\ ui.imageLoaded
    /\ p # ui.kuwaharaParams
    /\ applyKuwaharaFilter(r, "watch", [ui EXCEPT !.kuwaharaParams = p])
    /\ UNCHANGED <<gpu, core, initPc, completed, store, loads, numLoads, writes>>

\* handleFileSelect that sets loading before it tests the type of the file
handleFileSelectNotImageLoading ==
    /\ ui.mounted
    /\ ui' = [ui EXCEPT !.error = "Please select a valid image file",
                        !.loading = TRUE]
    /\ UNCHANGED <<gpu, core, initPc, textures, queue, completed, store, svc,
                   runs, loads, numLoads, writes, invs>>

\* handleFileSelect with a file whose type does not start with image/
handleFileSelectNotImage ==
    /\ ui.mounted
    /\ ui' = [ui EXCEPT !.error = "Please select a valid image file"]
    /\ UNCHANGED <<gpu, core, initPc, textures, queue, completed, store, svc,
                   runs, loads, numLoads, writes, invs>>

\* handleFileSelect with an image file, up to the await of createImageBitmap:
\* loadImage destroys all textures, createImageTexture asks for the device
handleFileSelect(l, img) ==
    /\ ui.mounted
    /\ loads[l].pc = "idle"
    /\ \A q \in HandlerIds : q < l => loads[q].pc # "idle"
    /\ numLoads < MaxLoads
    /\ numLoads' = numLoads + 1
    /\ textures' = destroyAll
    /\ store' = [k \in Keys |-> NoEntry]
    /\ IF core.device
       THEN /\ ui' = [ui EXCEPT !.error = "", !.loading = TRUE]
            /\ loads' = [loads EXCEPT ![l] = [IdleLoad EXCEPT !.pc = "decoding",
                                                              !.image = img]]
       ELSE /\ ui' = [ui EXCEPT !.error = "DeviceUninitialized",
                                !.loading = FALSE]
            /\ UNCHANGED loads
    /\ UNCHANGED <<gpu, core, initPc, queue, completed, svc, runs, writes, invs>>

\* createImageBitmap settles for handler l: createImageTexture creates and
\* stores the original, loadImage configures the canvas and renders
createImageTexture(l, decoded) ==
    LET img == loads[l].image
        id == Len(textures) + 1
    IN
    /\ loads[l].pc = "decoding"
    /\ IF ~decoded
       THEN /\ ui' = [ui EXCEPT !.error = "UnsupportedImageInput",
                                !.loading = FALSE]
            /\ loads' = [loads EXCEPT ![l] = IdleLoad]
            /\ UNCHANGED <<textures, queue, store, writes, core>>
       ELSE /\ Len(textures) < MaxTextures
            /\ textures' = Append(textures,
                  createTexture(img.width, img.height, "rgba8unorm"))
            /\ queue' = Append(queue,
                  Operation("upload", 0, {}, id, <<>>, NoParams))
            /\ store' = setTexture(store, "original",
                  ManagedTexture(id, img.width, img.height, "rgba8unorm"))
            /\ writes' = writes \cup {Write("original", id, 0)}
            /\ core' = configureContext(core, img.width, img.height)
            /\ IF core.device
               THEN /\ loads' = [loads EXCEPT ![l].pc = "loaded"]
                    /\ UNCHANGED ui
               ELSE /\ ui' = [ui EXCEPT !.error = "DeviceUninitialized",
                                        !.loading = FALSE]
                    /\ loads' = [loads EXCEPT ![l] = IdleLoad]
    /\ UNCHANGED <<gpu, initPc, completed, svc, runs, numLoads, invs>>

\* handleFileSelect continues after loadImage: imageLoaded, then the initial
\* filter run
handleFileSelectLoaded(l, r) ==
    /\ loads[l].pc = "loaded"
    /\ applyKuwaharaFilter(r, "handler", [ui EXCEPT !.imageLoaded = TRUE])
    /\ loads' = [loads EXCEPT ![l] = IdleLoad]
    /\ UNCHANGED <<gpu, core, initPc, completed, store, numLoads, writes>>

\* onUnmounted: ImageEditorService.destroy
destroy ==
    /\ ui.mounted
    /\ ui' = [ui EXCEPT !.mounted = FALSE]
    /\ textures' = destroyAll
    /\ store' = [k \in Keys |-> NoEntry]
    /\ core' = destroyCore(core)
    /\ UNCHANGED <<gpu, initPc, queue, completed, svc, runs, loads, numLoads, writes, invs>>

\* the steps of the program while every file the user selects is an image
ImageNext ==
    \/ \E c \in DOMAIN initPc : initializeStart(c)
    \/ \E c \in DOMAIN initPc, ok \in BOOLEAN : initializeAdapter(c, ok)
    \/ \E c \in DOMAIN initPc : initializeDevice(c)
    \/ GpuComplete
    \/ \E p \in ParamChoices, r \in RunIds : watchKuwaharaParams(p, r)
    \/ \E l \in HandlerIds :
          handleFileSelect(l, Images[(numLoads % Len(Images)) + 1])
    \/ \E l \in HandlerIds, decoded \in BOOLEAN : createImageTexture(l, decoded)
    \/ \E l \in HandlerIds, r \in RunIds : handleFileSelectLoaded(l, r)
    \/ \E r \in RunIds : StageResume(r)
    \/ \E r \in RunIds : StageNext(r)
    \/ destroy

Next ==
    \/ ImageNext
    \/ handleFileSelectNotImage

Spec == Init /\ [][Next]_vars

\* the GPU finishes submitted work, and the event loop runs the continuation
\* of a settled await
Fairness ==
    /\ WF_vars(GpuComplete)
    /\ \A r \in RunIds : WF_vars(StageResume(r)) /\ WF_vars(StageNext(r))

\* the user selects an image file only when the selection before has left
\* loadImage
FairHandlers == 1

FairInit ==
    /\ ProgramInitOf(1, FairHandlers)
    /\ gpu = NoTexels

\* the runs of the images: the user selects image files only, one at a time
FairSpec == FairInit /\ [][ImageNext]_vars /\ Fairness

(* ---------------- calls of WebGPUCore.initialize ---------------- *)
\* A client of the WebGPUCore instance of the services that calls initialize
\* NumInitCalls times without waiting for the calls before; the component is
\* unmounted at any time, and later clients call getInstance.
NumInitCalls == 3

CoreInit ==
    /\ ProgramInitOf(NumInitCalls, NumHandlers)
    /\ gpu = NoTexels

CoreNext ==
    \/ \E c \in DOMAIN initPc : initializeStart(c)
    \/ \E c \in DOMAIN initPc, ok \in BOOLEAN : initializeAdapter(c, ok)
    \/ \E c \in DOMAIN initPc : initializeDevice(c)
    \/ destroy
    \/ getInstance

CoreSpec == CoreInit /\ [][CoreNext]_vars

(* ---------------- the passes of one run ---------------- *)
\* The five dispatches of one uninterrupted run on an image of size texSize,
\* every texture of the chain having the size of the image.
MaxWidth == 9
MaxHeight == 2

\* Math.ceil(inputTexture.width / 8) and Math.ceil(inputTexture.height / 8)
dispatchWorkgroups(width, height) == <<ceil(Q(width, 8)), ceil(Q(height, 8))>>

\* the global invocation ids of a dispatch: @workgroup_size(8, 8)
GlobalIds(workgroups) ==
    (0..(8 * workgroups[1] - 1)) \X (0..(8 * workgroups[2] - 1))

\* the bounds check of computeMain of the Kuwahara shader
BoundsCheck(coords, texSize) ==
    \/ coords[1] < 0
    \/ coords[2] < 0
    \/ coords[1] >= texSize[1]
    \/ coords[2] >= texSize[2]

\* textureStore into an rgba16float and into an rgba8unorm texture
rgba16float(value) == <<f16(value[1]), f16(value[2]), f16(value[3]), f16(value[4])>>
rgba8unorm(value) ==
    <<unorm8(value[1]), unorm8(value[2]), unorm8(value[3]), unorm8(value[4])>>

\* a texture as device.createTexture returns it: every texel zero
Cleared(texSize) == [c \in Texels(texSize) |-> vec4f(Zero)]

ImageSizes == {<<1, 1>>, <<2, 2>>, <<3, MaxHeight>>, <<MaxWidth, 1>>}

\* colours of uniformly coloured images, as rgba8unorm holds them
UniformColours ==
    {<<Zero, Zero, Zero, One>>, <<Rat(1, 5), Rat(3, 5), One, One>>,
     <<Rat(1, 3), Rat(2, 3), Rat(4, 5), Rat(3, 5)>>}

Black == <<Zero, Zero, Zero, One>>
White == <<One, One, One, One>>

\* the decoded images: uniformly coloured ones, and black and white images
\* with one vertical or one horizontal edge
ImagesOf(texSize) ==
    {[c \in Texels(texSize) |-> colour] : colour \in UniformColours}
    \cup {[c \in Texels(texSize) |-> IF c[1] = 0 THEN Black ELSE White],
          [c \in Texels(texSize) |-> IF c[2] = 0 THEN Black ELSE White]}

\* smoothed tensor values <<G_xx, G_yy, G_xy>> an rgba16float texel can hold
TensorValues == {neg(One), Zero, Rat(1, 2), One, f32(16)}

\* the state before the pass named pc, with the textures given
Texels0(pc, texSize, p, original, blurOutput) ==
    [pc |-> pc, texSize |-> texSize, params |-> p,
     original |-> original,
     structureTensor |-> Cleared(texSize),
     horizontalBlur |-> Cleared(texSize),
     blurOutput |-> blurOutput,
     eigenvector |-> Cleared(texSize),
     kuwaharaOutput |-> Cleared(texSize),
     pass |-> "none", workgroups |-> <<0, 0>>, loads |-> {}, stores |-> {},
     locals |-> <<>>]

\* the parameters of the runs on a smoothed tensor: the defaults, and the
\* least kernelSize with alpha 0
AxesParams == {DefaultParams, Params(1, 80, 50, 0, 0, 100, 50)}

\* a run on a decoded image, or the last two passes on a smoothed tensor of
\* one texel
ShaderInit ==
    /\ ProgramInit
    /\ \/ \E texSize \in ImageSizes, p \in ParamChoices :
            \E original \in ImagesOf(texSize) :
                gpu = Texels0("st", texSize, p, original, Cleared(texSize))
       \/ \E G_xx \in TensorValues, G_yy \in TensorValues, G_xy \in TensorValues,
             p \in AxesParams :
            gpu = Texels0("ev", <<1, 1>>, p,
                          [c \in Texels(<<1, 1>>) |-> <<Rat(1, 5), Rat(3, 5), One, One>>],
                          [c \in Texels(<<1, 1>>) |-> <<G_xx, G_yy, G_xy, One>>])

\* the invocations of a dispatch sized for a texture of texSize
Grid(texSize) == GlobalIds(dispatchWorkgroups(texSize[1], texSize[2]))

\* the dispatch of the pass gpu.pc: localsAt pairs every invocation that
\* passed the shader's check with what it computed, valuesAt with the value it
\* stores at its coordinates in the texture named output
Dispatch(next, output, localsAt, valuesAt, loaded) ==
    /\ \E texSize \in {gpu.texSize}, locals \in {localsAt}, values \in {valuesAt} :
         \E active \in {{pair[1] : pair \in locals}} :
            gpu' = [gpu EXCEPT
                !.pc = next,
                ![output] = [c \in Texels(texSize) |->
                    IF c \in active
                    THEN (CHOOSE pair \in values : pair[1] = c)[2]
                    ELSE @[c]],
                !.pass = gpu.pc,
                !.workgroups = dispatchWorkgroups(texSize[1], texSize[2]),
                !.stores = {<<id, id>> : id \in active},
                !.loads = loaded,
                !.locals = [id \in active |->
                    (CHOOSE pair \in locals : pair[1] = id)[2]]]
    /\ UNCHANGED <<core, initPc, textures, queue, completed, store, svc, runs,
                   loads, numLoads, ui, writes, invs>>

\* the invocations of a dispatch that pass the boundary check
Active(texSize) == {id \in Grid(texSize) : ~BoundaryCheck(id, texSize)}

\* computeMain of structure-tensor.wgsl over the original texture
structureTensorMain ==
    /\ gpu.pc = "st"
    /\ \E texSize \in {gpu.texSize} :
         \E localsAt \in {{<<id, structureTensor(gpu.original, id, texSize)>> :
                           id \in Active(texSize)}} :
            Dispatch("hb", "structureTensor", localsAt,
                     {<<pair[1], rgba16float(pair[2])>> : pair \in localsAt},
                     UNION {{<<id, "original", c>> :
                             c \in structureTensorLoads(id, texSize)} :
                            id \in Active(texSize)})

\* horizontalMain of blur.wgsl over the structure tensor
horizontalMain ==
    /\ gpu.pc = "hb"
    /\ \E texSize \in {gpu.texSize}, u \in {kuwaharaParams(gpu.params)} :
         \E localsAt \in {{<<id, blur(TRUE, gpu.structureTensor, id, texSize,
                                      u.sigma, u.kernelSize)>> :
                           id \in Active(texSize)}} :
            Dispatch("vb", "horizontalBlur", localsAt,
                     {<<pair[1], rgba16float(pair[2])>> : pair \in localsAt},
                     UNION {{<<id, "structureTensor", c>> :
                             c \in blurLoads(TRUE, id, texSize, u.kernelSize)} :
                            id \in Active(texSize)})

\* verticalMain of blur.wgsl over the horizontal blur
verticalMain ==
    /\ gpu.pc = "vb"
    /\ \E texSize \in {gpu.texSize}, u \in {kuwaharaParams(gpu.params)} :
         \E localsAt \in {{<<id, blur(FALSE, gpu.horizontalBlur, id, texSize,
                                      u.sigma, u.kernelSize)>> :
                           id \in Active(texSize)}} :
            Dispatch("ev", "blurOutput", localsAt,
                     {<<pair[1], rgba16float(pair[2])>> : pair \in localsAt},
                     UNION {{<<id, "horizontalBlur", c>> :
                             c \in blurLoads(FALSE, id, texSize, u.kernelSize)} :
                            id \in Active(texSize)})

\* computeMain of the eigenvector shader over the smoothed tensor; the angle
\* of a tensor with G_xy = 0 and G_xx = G_yy is any of Indeterminate
eigenvectorMain(indeterminate) ==
    /\ gpu.pc = "ev"
    /\ \E texSize \in {gpu.texSize} :
         \E localsAt \in {{<<id, eigenDataAt(gpu.blurOutput, id, indeterminate)>> :
                           id \in Active(texSize)}} :
            Dispatch("kf", "eigenvector", localsAt,
                     {<<pair[1], rgba16float(eigenvector(pair[2]))>> :
                      pair \in localsAt},
                     {<<id, "blurOutput", id>> : id \in Active(texSize)})

\* computeMain of the Kuwahara shader over the original texture and the
\* eigenvector texture
kuwaharaMain ==
    /\ gpu.pc = "kf"
    /\ \E texSize \in {gpu.texSize}, u \in {kuwaharaParams(gpu.params)} :
         \E localsAt \in {{<<id, kuwahara(gpu.original, gpu.eigenvector, id,
                                          texSize, u)>> :
                           id \in {c \in Grid(texSize) :
                                     ~BoundsCheck(c, texSize)}}} :
            Dispatch("done", "kuwaharaOutput", localsAt,
                     {<<pair[1], rgba8unorm(clampedResult(pair[2].result))>> :
                      pair \in localsAt},
                     UNION {{<<id, "original", c>> :
                             c \in kuwaharaLoads(gpu.eigenvector, id, texSize, u)} :
                            id \in {c \in Grid(texSize) :
                                      ~BoundsCheck(c, texSize)}})

ShaderNext ==
    \/ structureTensorMain
    \/ horizontalMain
    \/ verticalMain
    \/ \E indeterminate \in Indeterminate : eigenvectorMain(indeterminate)
    \/ kuwaharaMain

ShaderSpec == ShaderInit /\ [][ShaderNext]_vars

(* ---------------- properties ---------------- *)
\* the queue operations that invocation i submitted
OpsOf(i) == {k \in DOMAIN queue : queue[k].inv = i}

\* the greatest element of a non-empty set of integers
Max(S) == CHOOSE x \in S : \A y \in S : y <= x

\* C1: within one runKuwahara call the n-th dispatch submitted is the n-th of
\* structure tensor, horizontal blur, vertical blur, eigen-analysis, Kuwahara
\* filter; a run suspended at a GPU wait has submitted nothing after the
\* dispatch it waits for; and at most one dispatch of a run is unfinished
C1_SequentialDispatches ==
    /\ \A i \in DOMAIN invs :
        /\ Cardinality(OpsOf(i)) <= Len(StageOrder)
        /\ \A k \in OpsOf(i) :
              queue[k].stage =
                  StageOrder[Cardinality({j \in OpsOf(i) : j <= k})]
        /\ Cardinality({k \in OpsOf(i) : k > completed}) <= 1
    /\ \A r \in RunIds :
          runs[r].pc = "wait" => runs[r].waitOp = Max(OpsOf(runs[r].inv))

\* a run has resolved after its five dispatches
C1_Witness ==
    \E i \in DOMAIN invs :
        invs[i].status = "resolved" /\ Cardinality(OpsOf(i)) = 5

\* a derived key is stored only after the dispatch writing its texture has
\* completed
DerivedKeysStoredWhenWritten ==
    \A w \in writes : w.key \in DerivedKeys => w.written

\* C2: every dispatch was submitted when each texture it reads had been
\* completely written (for the structure-tensor pass: the upload of the
\* original), and every derived key was stored when the dispatch writing its
\* texture had completed
C2_InputsCompletelyWritten ==
    /\ \A k \in DOMAIN queue :
          queue[k].stage # "upload" =>
              queue[k].inputs # {} /\ queue[k].inputsWritten
    /\ DerivedKeysStoredWhenWritten

\* the keys a stage reads
InKeys(s) ==
    CASE s = "st" -> {"original"}
      [] s = "hb" -> {"structure_tensor"}
      [] s = "vb" -> {"horizontal_blur"}
      [] s = "ev" -> {"blur_output"}
      [] OTHER -> {"original", "eigenvector_output"}

\* the queue operation that writes texture t
ProducerOf(t) == CHOOSE k \in DOMAIN queue : queue[k].output = t

\* texture t and all textures it was computed from
RECURSIVE Lineage(_)
Lineage(t) ==
    {t} \cup UNION {Lineage(u) : u \in queue[ProducerOf(t)].inputs}

\* C3: every dispatch reads the textures that the shared store holds under
\* the keys of its stage at the time of the submission, whichever run stored
\* them there
C3_StagesReadSharedStore ==
    [][\A k \in DOMAIN queue' :
          (k > Len(queue) /\ queue'[k].stage # "upload") =>
              queue'[k].inputs =
                  {store[key].texture : key \in InKeys(queue'[k].stage)}]_vars

\* a run has resolved, its kuwahara_output is in the store, and that output
\* was computed from a texture that another run allocated and published and
\* that a stage of this run read
C3_Witness ==
    \E i \in DOMAIN invs, j \in DOMAIN invs :
        /\ i # j
        /\ invs[i].status = "resolved"
        /\ \E k \in OpsOf(i) :
              /\ queue[k].stage = "kf"
              /\ store["kuwahara_output"].texture = queue[k].output
              /\ \E t \in Lineage(queue[k].output) :
                    /\ queue[ProducerOf(t)].inv = j
                    /\ \E w \in writes : w.texture = t /\ w.inv = j
                    /\ \E k2 \in OpsOf(i) : t \in queue[k2].inputs

\* C4: the parameter buffer bound by each blur dispatch and by the filtering
\* dispatch of a run holds the values of the parameters passed to that run's
\* runKuwahara call
C4_StagesUseOwnParams ==
    \A k \in DOMAIN queue :
        queue[k].stage \in {"hb", "vb", "kf"} =>
            queue[k].buffer = bufferData(invs[queue[k].inv].params)

\* the image textures that texture t was computed from
OriginalsOf(t) ==
    {u \in Lineage(t) : queue[ProducerOf(u)].stage = "upload"}

\* C5: every derived key in the store was computed from the image that is
\* the original of the store now, and that image is not destroyed
C5_DerivedKeysOfLiveOriginal ==
    \A key \in DerivedKeys :
        store[key] # NoEntry =>
            \A u \in OriginalsOf(store[key].texture) :
                ~textures[u].destroyed /\ store["original"].texture = u

\* a step that starts loadImage or that unmounts the editor
Teardown == numLoads' > numLoads \/ (ui.mounted /\ ~ui'.mounted)

\* C6: after the destroyAll of loadImage or of destroy every texture that was
\* ever put into the store is destroyed, the overwritten ones included
C6_TeardownDestroysAll ==
    [][Teardown => \A w \in writes : textures'[w.texture].destroyed]_vars

\* every submission writes into a texture created in the same step, does not
\* read the texture it writes, and reads only textures whose writers are
\* earlier in the queue
FreshOutput ==
    \A k \in DOMAIN queue' :
        k > Len(queue) =>
            /\ queue'[k].output \notin DOMAIN textures
            /\ queue'[k].output \in DOMAIN textures'
            /\ queue'[k].output \notin queue'[k].inputs
            /\ \A t \in queue'[k].inputs :
                  \E j \in DOMAIN queue : queue[j].output = t

\* C7: every dispatch writes into a texture newly created for it: no texture
\* is the write target of two queue operations, no dispatch reads its own
\* target, and the writer of every texture a dispatch reads precedes it in
\* the in-order queue
C7_FreshOutputTextures ==
    /\ [](\A a, b \in DOMAIN queue :
            a # b => queue[a].output # queue[b].output)
    /\ [][FreshOutput]_vars

\* the same stage has run twice, both dispatches have completed and the
\* store holds the output of the later one
C7_Witness ==
    \E a, b \in DOMAIN queue :
        /\ a < b /\ b <= completed
        /\ queue[a].stage = queue[b].stage
        /\ queue[a].stage # "upload"
        /\ store[OutKey(queue[b].stage)].texture = queue[b].output

\* the place of stage s in the pipeline
StageIndex(s) == CHOOSE k \in DOMAIN StageOrder : StageOrder[k] = s

\* the stage that stores its output under a derived key
StageOfKey(key) == CHOOSE s \in {"st", "hb", "vb", "ev", "kf"} : OutKey(s) = key

\* C8: a run of which a stage has failed is rejected and over: no run slot
\* carries it on, and all it ever submitted or stored belongs to stages
\* before the failed one, so that neither a later stage nor a second attempt
\* of the failed stage has acted
C8_FailedRunStops ==
    \A i \in DOMAIN invs :
        invs[i].failedStage # "none" =>
            /\ invs[i].status = "rejected"
            /\ invs[i].error \in {"MissingInputImage", "DeviceUninitialized"}
            /\ \A r \in RunIds : runs[r].pc # "idle" => runs[r].inv # i
            /\ \A k \in OpsOf(i) :
                  StageIndex(queue[k].stage) < StageIndex(invs[i].failedStage)
            /\ \A w \in writes :
                  w.inv = i =>
                      StageIndex(StageOfKey(w.key)) <
                          StageIndex(invs[i].failedStage)

\* a run was rejected at its filtering stage for a missing key after four
\* dispatches, all of which have completed, and a later run has started
C8_Witness ==
    \E i \in DOMAIN invs :
        /\ invs[i].failedStage = "kf"
        /\ invs[i].error = "MissingInputImage"
        /\ Cardinality(OpsOf(i)) = 4
        /\ \A k \in OpsOf(i) : k <= completed
        /\ i < Len(invs)

\* invocation i is rejected for a missing key in this step
LookupFails(i) ==
    /\ invs'[i].failedStage # "none"
    /\ invs'[i].error = "MissingInputImage"
    /\ i \in DOMAIN invs => invs[i].failedStage = "none"

\* the step in which the input lookup of a stage fails creates no texture,
\* submits nothing and leaves the store and the texture fields of the
\* service unchanged
FailedLookupLeavesNothing ==
    [][\A i \in DOMAIN invs' :
          LookupFails(i) =>
              /\ textures' = textures
              /\ queue' = queue
              /\ store' = store
              /\ svc'.structureTensorTexture = svc.structureTensorTexture
              /\ svc'.kuwaharaOutputTexture = svc.kuwaharaOutputTexture]_vars

\* once a run has been aborted, every derived key in the store holds a
\* texture whose writing dispatch has completed
NoIncompleteEntryAfterAbort ==
    (\E i \in DOMAIN invs : invs[i].status = "rejected") =>
        \A key \in DerivedKeys :
            store[key] # NoEntry => Written(store[key].texture)

\* C9: a stage whose input lookup fails allocates nothing, submits nothing
\* and leaves the store unchanged, and after an aborted run the store holds
\* no entry for a texture whose writing dispatch did not complete
C9_AbortLeavesStoreComplete ==
    /\ FailedLookupLeavesNothing
    /\ []NoIncompleteEntryAfterAbort

\* the float members of KuwaharaParams other than zeta
PlainFloatFields == {"sharpness", "hardness", "alpha", "zeroCrossing", "sigma"}

\* buffer buf, laid out as struct, holds kernelSize and the plain float
\* fields of p, each rounded to a 32-bit float, and is 32 bytes long with
\* zero bytes after the last member
HoldsFields(buf, p, struct) ==
    /\ Len(buf) = 32
    /\ Len(struct) = 7
    /\ ReadI32(buf, MemberOffset(struct, "kernelSize")) = p.kernelSize
    /\ \A name \in PlainFloatFields :
          NearestF32(ReadF32(buf, MemberOffset(struct, name)),
                     Rat(p[name], SliderDen))
    /\ \A j \in 29..32 : buf[j] = 0

\* the blur dispatches
BlurOps == {k \in DOMAIN queue : queue[k].stage \in {"hb", "vb"}}

\* the blur dispatches submitted in this step
NewBlurOps == {k \in DOMAIN queue' : k > Len(queue) /\ queue'[k].stage \in {"hb", "vb"}}

OriginalOf(i) ==
    LET k == CHOOSE k \in OpsOf(i) : queue[k].stage = "st"
    IN  CHOOSE t \in queue[k].inputs : TRUE

SameSize(t, u) ==
    /\ textures[t].width = textures[u].width
    /\ textures[t].height = textures[u].height

\* C11: after a completed run, kuwahara_output and every intermediate texture
\* the run published have the width and height of the original image
C11_OutputsHaveImageSize ==
    \A i \in DOMAIN invs :
        invs[i].status = "resolved" =>
            \A w \in writes : w.inv = i => SameSize(w.texture, OriginalOf(i))

\* a step in which the synchronous part of a stage is invoked: a run starts,
\* or a run goes on with its next stage
StageInvoked ==
    \/ Len(invs') > Len(invs)
    \/ \E r \in RunIds : runs[r].pc = "next" /\ runs'[r] # runs[r]

\* C12: with no device (before initialize has completed, after destroy) a
\* stage that is invoked throws the getDevice error, and so does
\* createImageTexture, before a texture is created, an operation is submitted
\* or the store is changed
C12_UninitializedDeviceThrows ==
    [][ ~core.device =>
        /\ \A r \in RunIds :
              runs[r].pc = "next" /\ runs'[r] # runs[r] =>
                  /\ invs'[runs[r].inv].status = "rejected"
                  /\ invs'[runs[r].inv].error = "DeviceUninitialized"
        /\ Len(invs') > Len(invs) =>
              /\ invs'[Len(invs')].status = "rejected"
              /\ invs'[Len(invs')].error = "DeviceUninitialized"
        /\ StageInvoked \/ numLoads' > numLoads =>
              /\ textures' = textures
              /\ queue' = queue
              /\ store' = store
              /\ writes' = writes
        /\ numLoads' > numLoads =>
              /\ ui'.error = "DeviceUninitialized"
              /\ loads' = loads
      ]_vars

\* a run was rejected by getDevice in a stage after its first one, with the
\* outputs of its earlier stages in the queue
C12_Witness ==
    \E i \in DOMAIN invs :
        /\ invs[i].error = "DeviceUninitialized"
        /\ invs[i].failedStage # "st"
        /\ OpsOf(i) # {}

\* the format the store entry of a key is declared with
FormatOfKey(key) ==
    IF key \in {"original", "kuwahara_output"} THEN "rgba8unorm"
    ELSE "rgba16float"

\* C17: every store entry has the format of its key (rgba8unorm for original
\* and kuwahara_output, rgba16float for the four intermediate keys), and the
\* format, width and height it records are those its texture was created with
C17_EntriesDescribeTextures ==
    \A key \in Keys :
        store[key] # NoEntry =>
            LET e == store[key]
                t == textures[e.texture]
            IN  /\ e.format = FormatOfKey(key)
                /\ e.format = t.format
                /\ e.width = t.width
                /\ e.height = t.height

\* no operation of another run and no image upload lies between the first and
\* the last operation of invocation i in the queue
Uninterrupted(i) ==
    \A k \in DOMAIN queue :
        (\E a, b \in OpsOf(i) : a <= k /\ k <= b) => queue[k].inv = i

\* the texture that invocation i stored under key
PublishedBy(i, key) == {w.texture : w \in {v \in writes : v.inv = i /\ v.key = key}}

\* the operation of stage s of invocation i, when it has submitted one
OpOfStage(i, s) == {k \in OpsOf(i) : queue[k].stage = s}

\* C18: in a run that no other run and no image load interleaves with, the
\* structure-tensor pass reads the stored original, each later stage reads
\* the texture the stage before it published under its key (structure_tensor,
\* horizontal_blur, blur_output, eigenvector_output), and the Kuwahara filter
\* reads that original and the eigenvector texture
C18_StagesChain ==
    \A i \in DOMAIN invs :
        Uninterrupted(i) =>
            \A k \in OpsOf(i) :
                LET op == queue[k] IN
                /\ op.stage = "st" =>
                      \E w \in writes : /\ w.key = "original"
                                        /\ op.inputs = {w.texture}
                /\ op.stage = "hb" =>
                      op.inputs = PublishedBy(i, "structure_tensor")
                /\ op.stage = "vb" =>
                      op.inputs = PublishedBy(i, "horizontal_blur")
                /\ op.stage = "ev" =>
                      op.inputs = PublishedBy(i, "blur_output")
                /\ op.stage = "kf" =>
                      op.inputs = {OriginalOf(i)}
                                     \cup PublishedBy(i, "eigenvector_output")
                /\ op.stage # "st" =>
                      \A j \in OpOfStage(i, StageOrder[StageIndex(op.stage) - 1]) :
                          /\ j < k
                          /\ op.stage # "kf" => op.inputs = {queue[j].output}
                          /\ op.stage = "kf" => queue[j].output \in op.inputs

\* a run has gone through its five stages without another run or a load in
\* between and has resolved
C18_Witness ==
    \E i \in DOMAIN invs :
        /\ invs[i].status = "resolved"
        /\ Uninterrupted(i)
        /\ Cardinality(OpsOf(i)) = 5

\* the model stops creating textures at MaxTextures; a run that needs one
\* more then stays where it is
OutOfTextures == Len(textures) >= MaxTextures

Running(i) == i \in DOMAIN invs /\ invs[i].status = "running"
Resolved(i) == i \in DOMAIN invs /\ invs[i].status = "resolved"
Rejected(i) == i \in DOMAIN invs /\ invs[i].status = "rejected"

\* C16 as stated: a run that started with the original present and the
\* device initialized (its first stage submitted) resolves, having published
\* kuwahara_output after exactly five dispatches
C16_RunPublishes ==
    \A i \in 1..MaxInvocations :
        Running(i) ~>
            \/ /\ Resolved(i)
               /\ Cardinality(OpsOf(i)) = 5
               /\ PublishedBy(i, "kuwahara_output") # {}
            \/ OutOfTextures

\* a run that has not settled is suspended at the GPU wait of the dispatch it
\* submitted last, or is about to go on with its next stage
OnlyGpuWaitSuspends ==
    /\ \A i \in DOMAIN invs :
          Running(i) => \E r \in RunIds : /\ runs[r].inv = i
                                          /\ runs[r].pc \in {"wait", "next"}
    /\ \A r \in RunIds :
          /\ runs[r].pc = "wait" =>
                /\ runs[r].waitOp = Max(OpsOf(runs[r].inv))
                /\ queue[runs[r].waitOp].stage = runs[r].stage
          /\ runs[r].pc # "idle" => Running(runs[r].inv)

\* a settled run either resolved after five dispatches with kuwahara_output
\* published, or was rejected after fewer because a stage found no device or
\* no input texture; a run that had started is rejected only after the
\* component was unmounted or a second image was selected
SettledRuns ==
    \A i \in DOMAIN invs :
        /\ invs[i].status = "resolved" =>
              /\ Cardinality(OpsOf(i)) = 5
              /\ PublishedBy(i, "kuwahara_output") # {}
        /\ invs[i].status = "rejected" =>
              /\ Cardinality(OpsOf(i)) < 5
              /\ PublishedBy(i, "kuwahara_output") = {}
              /\ invs[i].error \in {"DeviceUninitialized", "MissingInputImage"}
              /\ OpsOf(i) # {} => ~ui.mounted \/ numLoads >= 2

\* C16 (amended): a started run eventually settles when every GPU wait
\* resolves; it resolves after exactly five dispatches with kuwahara_output
\* published, or it is rejected after fewer dispatches by a stage that found
\* the device or an input texture gone; the GPU wait is its only suspension
C16_RunSettles ==
    /\ \A i \in 1..MaxInvocations :
          Running(i) ~> (Resolved(i) \/ Rejected(i) \/ OutOfTextures)
    /\ [](SettledRuns /\ OnlyGpuWaitSuspends)

\* a run has resolved after its five dispatches, and another was rejected
\* after it had started
C16_Witness ==
    /\ \E i \in DOMAIN invs : Resolved(i) /\ Cardinality(OpsOf(i)) = 5
    /\ \E i \in DOMAIN invs : Rejected(i) /\ OpsOf(i) # {}

\* C13: every texel coordinate the structure-tensor pass and the two blur
\* passes load lies inside the texture they read, whatever its size, the
\* pixel and the kernelSize
C13_LoadsInsideImage ==
    gpu.pass \in {"st", "hb", "vb"} =>
        \A load \in gpu.loads : load[3] \in Texels(gpu.texSize)

\* the vertical blur has run on a 2x2 image with the greater kernelSize: the
\* corner pixel <<1, 1>> loaded both texels of its column, and the
\* structure-tensor pass before it all four texels
C13_Witness ==
    /\ gpu.pass = "vb"
    /\ gpu.texSize = <<2, 2>>
    /\ gpu.params = DefaultParams
    /\ {load[3] : load \in {l \in gpu.loads : l[1] = <<1, 1>>}}
          = {<<1, 0>>, <<1, 1>>}
    /\ structureTensorLoads(<<1, 1>>, gpu.texSize) = Texels(gpu.texSize)

\* every texel of the image has the colour of texel <<0, 0>>
UniformImage(image) == \A c \in DOMAIN image : image[c] = image[<<0, 0>>]

\* G_xx = G_yy = G_xy = 0 at every texel of a tensor texture
ZeroTensor(tensor) ==
    \A c \in DOMAIN tensor :
        tensor[c][1] = Zero /\ tensor[c][2] = Zero /\ tensor[c][3] = Zero

\* C14: the structure-tensor pass stores G_xx = G_yy = G_xy = 0 at every
\* pixel of a uniformly coloured image, each blur pass stores the tensor 0
\* where it read the tensor 0, and the eigen-analysis pass stores anisotropy
\* 0 at every pixel whose smoothed tensor is 0
C14_UniformImageIsIsotropic ==
    /\ gpu.pass = "st" /\ UniformImage(gpu.original)
          => ZeroTensor(gpu.structureTensor)
    /\ gpu.pass = "hb" /\ ZeroTensor(gpu.structureTensor)
          => ZeroTensor(gpu.horizontalBlur)
    /\ gpu.pass = "vb" /\ ZeroTensor(gpu.horizontalBlur)
          => ZeroTensor(gpu.blurOutput)
    /\ gpu.pass = "ev" /\ ZeroTensor(gpu.blurOutput)
          => \A c \in Texels(gpu.texSize) : gpu.eigenvector[c][3] = Zero

\* the eigen-analysis pass has run on the smoothed tensor of a uniformly
\* coloured 3x2 image that is not black; the three passes before it stored
\* the tensor 0
C14_Witness ==
    /\ gpu.pass = "ev"
    /\ gpu.texSize = <<3, MaxHeight>>
    /\ UniformImage(gpu.original)
    /\ gpu.original[<<0, 0>>] # Black
    /\ ZeroTensor(gpu.structureTensor)
    /\ ZeroTensor(gpu.horizontalBlur)
    /\ ZeroTensor(gpu.blurOutput)
    /\ \A c \in Texels(gpu.texSize) : gpu.eigenvector[c][3] = Zero

\* the colour of a texel: its first three channels
rgb(texel) == <<texel[1], texel[2], texel[3]>>

\* C15: the Kuwahara pass on a uniformly coloured image stores the colour of
\* the image at every pixel; at every pixel every sector whose weightSum is
\* above EPS has the colour as its mean and variance 0 in every channel
C15_UniformImageIsKept ==
    gpu.pass = "kf" /\ UniformImage(gpu.original) =>
        \A c \in Texels(gpu.texSize) :
            /\ rgb(gpu.kuwaharaOutput[c]) = rgb(gpu.original[c])
            /\ \A k \in 1..8 :
                  LET sector == gpu.locals[c].sectors[k]
                  IN  lt(EPS, sector.weightSum) =>
                        /\ sectorMean(sector) = rgb(gpu.original[c])
                        /\ \A channel \in 1..3 :
                              variance(sector, channel) = Zero

\* the Kuwahara pass has run on a uniformly coloured 3x2 image whose colour
\* is neither black nor white, and the pixel <<1, 1>> has a sector with
\* weight and got the colour of the image
C15_Witness ==
    /\ gpu.pass = "kf"
    /\ gpu.texSize = <<3, MaxHeight>>
    /\ UniformImage(gpu.original)
    /\ rgb(gpu.original[<<0, 0>>]) = <<Rat(1, 3), Rat(2, 3), Rat(4, 5)>>
    /\ \E k \in 1..8 : lt(EPS, gpu.locals[<<1, 1>>].sectors[k].weightSum)
    /\ rgb(gpu.kuwaharaOutput[<<1, 1>>]) = <<Rat(1, 3), Rat(2, 3), Rat(4, 5)>>

\* the size of the texture whose textureDimensions the shader of the queue
\* operation op compares the invocation id with
MeasuredSize(op) ==
    LET t == CHOOSE t \in op.inputs :
                op.stage = "kf" => textures[t].format = "rgba8unorm"
    IN  <<textures[t].width, textures[t].height>>

\* C19: the invocations of every dispatch that pass the bounds check of the
\* shader are the pixels of the image, one invocation each: the grid has
\* ceil(width/8) x ceil(height/8) workgroups of 8x8 invocations, and an
\* invocation outside the image returns at once
C19_EveryPixelProcessedOnce ==
    \A k \in DOMAIN queue :
        queue[k].stage # "upload" =>
            LET out == textures[queue[k].output]
                grid == GlobalIds(dispatchWorkgroups(out.width, out.height))
                texSize == MeasuredSize(queue[k])
                returns(id) == IF queue[k].stage = "kf"
                               THEN BoundsCheck(id, texSize)
                               ELSE BoundaryCheck(id, texSize)
            IN  {id \in grid : ~returns(id)} = Texels(<<out.width, out.height>>)

\* C20: the eigen-analysis of every smoothed tensor gives lambda1 >= lambda2
\* and an anisotropy in [0, 1], and anisotropy 0 when lambda1 + lambda2 is
\* below EPSILON
C20_EigenvaluesOrdered ==
    gpu.pass = "ev" =>
        \A c \in DOMAIN gpu.locals :
            LET eigenData == gpu.locals[c]
            IN  /\ le(eigenData.lambda2, eigenData.lambda1)
                /\ le(Zero, eigenData.anisotropy)
                /\ le(eigenData.anisotropy, One)
                /\ BelowEPSILON(add(eigenData.lambda1, eigenData.lambda2))
                      => eigenData.anisotropy = Zero

\* the eigen-analysis has run on a tensor with distinct eigenvalues that add
\* up to less than EPSILON, and its anisotropy is 0
C20_Witness ==
    /\ gpu.pass = "ev"
    /\ \E c \in DOMAIN gpu.locals :
          /\ lt(gpu.locals[c].lambda2, gpu.locals[c].lambda1)
          /\ BelowEPSILON(add(gpu.locals[c].lambda1, gpu.locals[c].lambda2))
          /\ gpu.locals[c].anisotropy = Zero

\* the loads of the invocation id of a blur pass lie on the axis of the pass
\* (axis 1 is x, 2 is y), at most radius texels from id
AlongAxis(axis, radius) ==
    \A load \in gpu.loads :
        /\ load[3][3 - axis] = load[1][3 - axis]
        /\ Abs(load[3][axis] - load[1][axis]) <= radius

\* C21: a blur pass loads, for every pixel, texels of the pixel's own row
\* (horizontal pass) or column (vertical pass) at offsets of at most
\* kernelSize, and it stores the colour of a uniformly coloured input at
\* every pixel, the pixels at the border included
C21_BlurKeepsConstant ==
    /\ gpu.pass = "hb" =>
          /\ AlongAxis(1, gpu.params.kernelSize)
          /\ UniformImage(gpu.structureTensor)
                => gpu.horizontalBlur = gpu.structureTensor
    /\ gpu.pass = "vb" =>
          /\ AlongAxis(2, gpu.params.kernelSize)
          /\ UniformImage(gpu.horizontalBlur)
                => gpu.blurOutput = gpu.horizontalBlur

\* the vertical blur has run on the horizontally blurred tensor of a 2x2
\* image with a vertical edge: the tensor is the same at all four pixels,
\* not zero, and every pixel, each at the border, kept it
C21_Witness ==
    /\ gpu.pass = "vb"
    /\ gpu.texSize = <<2, 2>>
    /\ UniformImage(gpu.horizontalBlur)
    /\ gpu.horizontalBlur[<<0, 0>>][1] # Zero
    /\ gpu.blurOutput = gpu.horizontalBlur
    /\ \E load \in gpu.loads : load[1] = <<1, 1>> /\ load[3] = <<1, 0>>

C23_BoundTexturesAlive ==
    \A k \in DOMAIN queue :
        queue[k].stage # "upload" => queue[k].inputsAlive

\* C24: processing is set in every state in which a filter run that
\* applyKuwaharaFilter started has not settled
C24_ProcessingWhileRunning ==
    (\E r \in RunIds : runs[r].pc # "idle") => ui.processing

\* the image of the loadImage call made last
LastRequested == Images[((numLoads - 1) % Len(Images)) + 1]

\* the last pending loadImage call of handler l resolves in this step, and a
\* call that overlapped it has resolved before: the store holds an original
\* although the call of l cleared the store when it began
LastOfOverlappingLoads(l) ==
    /\ ui.mounted
    /\ loads[l].pc = "decoding"
    /\ store["original"] # NoEntry
    /\ \A q \in HandlerIds \ {l} : loads[q].pc # "decoding"
    /\ loads'[l].pc = "loaded"

\* C25: when the last of overlapping loadImage calls has resolved, the
\* original of the store and the canvas have the size of the image requested
\* last, and the original texture of every other call is destroyed
C25_LastRequestWins ==
    [][\A l \in HandlerIds :
          LastOfOverlappingLoads(l) =>
             /\ store'["original"].width = LastRequested.width
             /\ store'["original"].height = LastRequested.height
             /\ core'.canvasWidth = LastRequested.width
             /\ core'.canvasHeight = LastRequested.height
             /\ \A k \in DOMAIN queue' :
                   /\ queue'[k].stage = "upload"
                   /\ queue'[k].output # store'["original"].texture
                   => textures'[queue'[k].output].destroyed]_vars

\* the decode of the only pending loadImage call, of handler l, fails in this
\* step, and no other call has put an original into the store meanwhile
DecodeFails(l) ==
    /\ loads[l].pc = "decoding"
    /\ \A q \in HandlerIds \ {l} : loads[q].pc # "decoding"
    /\ store["original"] = NoEntry
    /\ loads'[l].pc = "idle"
    /\ ui'.error = "UnsupportedImageInput"

\* a filter run is started in this step while the device is there and the
\* store has no original
RunStartsWithoutOriginal ==
    /\ Len(invs') = Len(invs) + 1
    /\ core.device
    /\ store["original"] = NoEntry

\* C26: a loadImage call whose decode fails leaves every key of the store
\* empty, and a filter run started while the store has no original is
\* rejected with the error of the missing original, without a dispatch
C26_FailedLoadLeavesStoreEmpty ==
    [][/\ \A l \in HandlerIds :
             DecodeFails(l) => \A k \in Keys : store'[k] = NoEntry
       /\ RunStartsWithoutOriginal =>
             /\ invs'[Len(invs')].status = "rejected"
             /\ invs'[Len(invs')].error = "MissingInputImage"
             /\ queue' = queue]_vars

\* the runs of C26 alone: started without an original, rejected at once
RunWithoutOriginalRejected ==
    [][RunStartsWithoutOriginal =>
          /\ invs'[Len(invs')].status = "rejected"
          /\ invs'[Len(invs')].error = "MissingInputImage"
          /\ queue' = queue]_vars

\* the 32-bit float in the zeta slot of a parameter buffer, as both shaders
\* read it
ZetaSlot(buf) == ReadF32(buf, MemberOffset(KuwaharaShaderStruct, "zeta"))

\* C27: the zeta slot of the buffer that a blur dispatch or the filtering
\* dispatch of a run binds holds the zeta passed to that run, or
\* 2 / (kernelSize / 2) of that run's kernelSize when its zeta is 0, as a
\* 32-bit float
C27_ZetaOfTheRun ==
    \A k \in DOMAIN queue :
        queue[k].stage \in {"hb", "vb", "kf"} =>
            NearestF32(ZetaSlot(queue[k].buffer),
                       effectiveZeta(invs[queue[k].inv].params))

\* the dispatches of the run started last bind a buffer whose zeta slot holds
\* that run's value
ZetaOfTheLatestRun ==
    \A k \in DOMAIN queue :
        (queue[k].stage \in {"hb", "vb", "kf"} /\ queue[k].inv = Len(invs)) =>
            NearestF32(ZetaSlot(queue[k].buffer),
                       effectiveZeta(invs[queue[k].inv].params))

\* the calls of initialize that have called requestAdapter, and those that
\* have called requestDevice
AdapterRequests ==
    {c \in DOMAIN initPc : initPc[c] \in {"adapter", "device", "failed", "done"}}
DeviceRequests == {c \in DOMAIN initPc : initPc[c] \in {"device", "done"}}

\* call c of initialize is made while the device is set
CallWhenInitialized(c) ==
    /\ initPc[c] = "idle"
    /\ core.device
    /\ initPc'[c] # "idle"

\* C28: however the calls of initialize on one instance interleave, at most
\* one of them requests the adapter and at most one the device, and a call
\* made when the device is set returns without changing device, context or
\* canvas
C28_InitializeRequestsOnce ==
    [][/\ Cardinality(AdapterRequests') <= 1
       /\ Cardinality(DeviceRequests') <= 1
       /\ \A c \in DOMAIN initPc :
             CallWhenInitialized(c) =>
                /\ initPc'[c] = "returned"
                /\ core' = core]_vars

\* a call of initialize made when the device is set returns at once and
\* leaves every field of the instance as it is
InitializedCallReturns ==
    [][\A c \in DOMAIN initPc :
          CallWhenInitialized(c) => (initPc'[c] = "returned" /\ core' = core)]_vars

\* C29: getInstance returns the same instance for all calls between two calls
\* of destroy; after destroy it returns a new instance, and getDevice of the
\* instance that the services captured throws from then on
C29_DestroyedInstanceThrows ==
    [][/\ core.instance # "null" => core'.instance \in {core.instance, "null"}
       /\ core.instance = "null" => core'.instance \in {"null", "new"}
       /\ core'.instance # "captured" => ~core'.device]_vars

\* the static field changes only from an instance to null and from null to a
\* new instance
InstanceKeptUntilDestroy ==
    [][/\ core.instance # "null" => core'.instance \in {core.instance, "null"}
       /\ core.instance = "null" => core'.instance \in {"null", "new"}]_vars

NotImageError == "Please select a valid image file"

\* a file that is no image is selected
NotImageSelected == ui.error # NotImageError /\ ui'.error = NotImageError

\* no handleFileSelect call is pending: none is inside loadImage, none awaits
\* its initial filter run
HandlersSettled ==
    /\ \A l \in HandlerIds : loads[l].pc = "idle"
    /\ \A r \in RunIds : runs[r].pc # "idle" => runs[r].owner # "handler"

\* a handleFileSelect call settles: loadImage throws at once, the decoding
\* fails, the canvas cannot be rendered, the initial run is rejected at once,
\* or the initial run settles after its waits
HandlerSettles ==
    \/ numLoads' = numLoads + 1 /\ loads' = loads
    \/ \E l \in HandlerIds :
          /\ loads[l].pc # "idle"
          /\ loads'[l].pc = "idle"
          /\ \A r \in RunIds : runs'[r].pc # "idle" => runs[r].pc # "idle"
    \/ \E r \in RunIds :
          /\ runs[r].pc # "idle"
          /\ runs[r].owner = "handler"
          /\ runs'[r].pc = "idle"

\* C30: selecting a file that is no image sets the error and calls no
\* loadImage, and leaves loading and imageLoaded as they are; whatever the
\* outcome of loadImage and of the initial run, loading is false when a
\* handleFileSelect call settles and while none is pending; imageLoaded
\* becomes true only in the continuation of a loadImage that has resolved
C30_HandlerFlags ==
    [][/\ NotImageSelected =>
             /\ ui'.loading = ui.loading
             /\ ui'.imageLoaded = ui.imageLoaded
             /\ numLoads' = numLoads
             /\ UNCHANGED <<loads, store, textures, queue, runs, invs>>
       /\ HandlerSettles => ~ui'.loading
       /\ HandlersSettled' => ~ui'.loading
       /\ (~ui.imageLoaded /\ ui'.imageLoaded) =>
             \E l \in HandlerIds : loads[l].pc = "loaded" /\ loads'[l].pc = "idle"]_vars

\* two images were selected and an initial run has resolved, then a file that
\* is no image was selected: its error is shown, the image stays loaded,
\* nothing is loading and no handler is pending
C30_Witness ==
    /\ ui.error = NotImageError
    /\ ui.imageLoaded
    /\ ~ui.loading
    /\ HandlersSettled
    /\ numLoads = 2
    /\ \E i \in DOMAIN invs : Resolved(i)

====
